---- MODULE Spec2Model ----
(***************************************************************************)
(* ftsim: students choosing between food trucks, the school cafeteria and  *)
(* a fast-food stand.  The module models the item scoring function         *)
(* (ftsim/scoring/scorer.py), the vendors and their stock                  *)
(* (ftsim/models), the decision policy (ftsim/simulation/decision.py) and  *)
(* the simulation engine (ftsim/simulation/engine.py).                     *)
(*                                                                         *)
(* Money is counted in cents.  The scores, which the program computes in   *)
(* floating point, are exact rationals <<numerator, denominator>> here.    *)
(* An exception raised by the program is a value of the model: a score of  *)
(* ZeroDivisionError, or the variable raised.                              *)
(***************************************************************************)
EXTENDS Integers, Sequences, FiniteSets, TLC

VARIABLES
    trucks,         \* SimulationEngine.trucks: the configured trucks, in order
    students,       \* SimulationEngine.students: the student profiles
    num_days,       \* SimulationEngine.num_days
    inventory,      \* MenuItem._current_inventory of every truck item
    daily_menu,     \* SchoolLunch.daily_menu
    pending,        \* the day's StudentDailyState objects not yet decided, in order
    chosen,         \* the make_decision calls that stand before line 166: state and winner
    truck_option,   \* what a direct _find_best_items_for_truck call returned
    decided,        \* the day's StudentDailyState objects after their decision
    day,            \* the day run() is executing (0 before the first)
    daily_results,  \* run(): the DailyResult records collected so far
    aggregate,      \* run(): the CompetitionAggregateResult, NONE until returned
    pc,             \* where the caller stands
    raised,         \* the exception that ended the call, NONE if none
    sale_ok,        \* what the last direct FoodTruck.sell_item call returned
    sc_item,        \* score_item: the item argument
    sc_profile,     \* score_item: the profile argument
    sc_state,       \* score_item: the state argument
    sc_result       \* score_item: the value returned (or the exception raised)

vars == <<trucks, students, num_days, inventory, daily_menu, pending, chosen, truck_option,
          decided,
          day, daily_results, aggregate, pc, raised, sale_ok,
          sc_item, sc_profile, sc_state, sc_result>>

NONE == "None"

(***************************************************************************)
(* Bounds of the model.                                                    *)
(***************************************************************************)
MaxInventory == 2     \* inventory_per_day of a truck item ranges over 1..MaxInventory
MaxStudents == 2      \* size of the student population
MaxDays == 2          \* num_days ranges over 1..MaxDays

(***************************************************************************)
(* Exact arithmetic on non-negative rationals <<n, d>>, d > 0, in lowest   *)
(* terms.  It stands for the float arithmetic of scorer.py / decision.py.  *)
(***************************************************************************)
RECURSIVE GCD(_, _)
GCD(a, b) == IF b = 0 THEN a ELSE GCD(b, a % b)

Rat(n, d) == IF n = 0 THEN <<0, 1>>
             ELSE LET g == GCD(IF n < 0 THEN -n ELSE n, d) IN <<n \div g, d \div g>>

RAdd(x, y) == LET l == (x[2] \div GCD(x[2], y[2])) * y[2]
              IN  Rat(x[1] * (l \div x[2]) + y[1] * (l \div y[2]), l)

RSub(x, y) == RAdd(x, <<-y[1], y[2]>>)

RMul(x, y) == IF x[1] = 0 \/ y[1] = 0 THEN <<0, 1>>
              ELSE LET g1 == GCD(x[1], y[2])
                       g2 == GCD(y[1], x[2])
                   IN  <<(x[1] \div g1) * (y[1] \div g2), (x[2] \div g2) * (y[2] \div g1)>>

\* -1, 0, 1 as a/b is below, equal to, above c/d (a, c >= 0; b, d > 0); by
\* continued fractions, so that no product is formed.
RECURSIVE RCmp(_, _, _, _)
RCmp(a, b, c, d) ==
    LET qa == a \div b
        qc == c \div d
        ra == a % b
        rc == c % d
    IN  IF qa # qc THEN (IF qa < qc THEN -1 ELSE 1)
        ELSE IF ra = 0 /\ rc = 0 THEN 0
        ELSE IF ra = 0 THEN -1
        ELSE IF rc = 0 THEN 1
        ELSE RCmp(d, rc, b, ra)

RGreater(x, y) == RCmp(x[1], x[2], y[1], y[2]) = 1
RMax(x, y) == IF RGreater(y, x) THEN y ELSE x

ZERO == <<0, 1>>
ONE == <<1, 1>>
\* the value of an expression whose evaluation raised ZeroDivisionError
ZeroDivisionError == <<0, 0>>

(***************************************************************************)
(* ftsim/config.py                                                         *)
(***************************************************************************)
WEIGHT_PREFERENCE == <<1, 2>>
WEIGHT_AFFORDABILITY == <<3, 10>>
WEIGHT_MOOD_HEALTH == <<1, 5>>

BONUS_FUZZY_MATCH_HIGH == <<2, 1>>
BONUS_FUZZY_MATCH_MEDIUM == <<3, 2>>
BONUS_SWEET == <<5, 4>>
BONUS_SAVORY == <<6, 5>>
BONUS_ENERGY == <<13, 10>>
BONUS_HIGH_CALORIE == <<6, 5>>
BONUS_CATEGORY_MATCH == <<27, 20>>

PENALTY_NO_DRINK == <<17, 20>>

FUZZY_THRESHOLD_HIGH == 85
FUZZY_THRESHOLD_MEDIUM == 70
HIGH_CALORIE_THRESHOLD == 600

SWEET_PREFERENCE_VALUES == {"Yes, I often crave something sweet", "Sometimes"}
HIGH_ACTIVITY_LEVELS == {"Very active (exercise daily)", "Active (exercise 3-4 times a week)"}
HIGH_METABOLISM_VALUES == {"Fast - I can eat a lot without gaining weight"}

LOSS_REASON_SCHOOL_LUNCH == "school_lunch"
LOSS_REASON_PRICE == "price"
LOSS_REASON_STOCKOUT == "stockout"
LOSS_REASON_FASTFOOD == "fastfood"

ITEM_TYPE_FOOD == "food"
ITEM_TYPE_DRINK == "drink"

(***************************************************************************)
(* ftsim/models/menu_item.py and ftsim/models/vendors.py                   *)
(***************************************************************************)
\* the MenuItem dataclass; the price is in cents
MenuItem(name, price, health_rating, item_type, category, sub_type, energy_boost, inventory_per_day, calories) ==
    [name |-> name, price |-> price, health_rating |-> health_rating,
     item_type |-> item_type, category |-> category, sub_type |-> sub_type,
     energy_boost |-> energy_boost, inventory_per_day |-> inventory_per_day,
     calories |-> calories]

_UNLIMITED == 9999

_SCHOOL_LUNCH_FOOD_POOL == <<
    MenuItem("Chicken Tenders", 350, 5, "food", "fried", "savory", FALSE, _UNLIMITED, 450),
    MenuItem("Spaghetti w/ Meat Sauce", 300, 6, "food", "savory", "savory", FALSE, _UNLIMITED, 500),
    MenuItem("Grilled Cheese", 250, 5, "food", "savory", "savory", FALSE, _UNLIMITED, 400),
    MenuItem("Turkey Sandwich", 300, 7, "food", "healthy", "savory", FALSE, _UNLIMITED, 350),
    MenuItem("Bean & Cheese Burrito", 300, 6, "food", "savory", "savory", FALSE, _UNLIMITED, 480),
    MenuItem("Garden Salad", 200, 9, "food", "healthy", "savory", FALSE, _UNLIMITED, 180),
    MenuItem("Fish Sticks", 300, 5, "food", "fried", "savory", FALSE, _UNLIMITED, 400),
    MenuItem("Mac & Cheese", 250, 4, "food", "savory", "savory", FALSE, _UNLIMITED, 450),
    MenuItem("Veggie Burger", 350, 7, "food", "healthy", "savory", FALSE, _UNLIMITED, 320),
    MenuItem("Hamburger", 350, 5, "food", "fried", "savory", FALSE, _UNLIMITED, 500) >>

_SCHOOL_LUNCH_DRINK_POOL == <<
    MenuItem("Chocolate Milk", 150, 5, "drink", "milk", "sweet", FALSE, _UNLIMITED, 200),
    MenuItem("Apple Juice", 150, 7, "drink", "juice", "sweet", FALSE, _UNLIMITED, 120),
    MenuItem("Fruit Punch", 150, 4, "drink", "juice", "sweet", FALSE, _UNLIMITED, 150),
    MenuItem("Water", 0, 10, "drink", "water", "savory", FALSE, _UNLIMITED, 0),
    MenuItem("Low-Fat Milk", 150, 8, "drink", "milk", "savory", FALSE, _UNLIMITED, 110) >>

_BURGER_JOINT_MENU == <<
    MenuItem("Cheeseburger", 600, 3, "food", "fried", "savory", FALSE, _UNLIMITED, 550),
    MenuItem("Double Bacon Burger", 900, 2, "food", "fried", "savory", FALSE, _UNLIMITED, 900),
    MenuItem("Chicken Nuggets (10pc)", 700, 3, "food", "fried", "savory", FALSE, _UNLIMITED, 480),
    MenuItem("Large Fries", 500, 2, "food", "fried", "savory", FALSE, _UNLIMITED, 500),
    MenuItem("Hot Dog", 500, 3, "food", "fried", "savory", FALSE, _UNLIMITED, 400),
    MenuItem("Large Soda", 300, 1, "drink", "soda", "sweet", FALSE, _UNLIMITED, 250),
    MenuItem("Chocolate Shake", 600, 2, "drink", "milk", "sweet", FALSE, _UNLIMITED, 700),
    MenuItem("Sweet Tea", 300, 2, "drink", "juice", "sweet", FALSE, _UNLIMITED, 180) >>

(***************************************************************************)
(* ftsim/models/student.py                                                 *)
(***************************************************************************)
\* the fields of StudentProfile that the scoring and the decision read
StudentProfile(student_id, q3_metabolism, q5_activity_level, q7_wants_sweet, q8_lunch_choice, ranks, has_car) ==
    [student_id |-> student_id, q3_metabolism |-> q3_metabolism,
     q5_activity_level |-> q5_activity_level, q7_wants_sweet |-> q7_wants_sweet,
     q8_lunch_choice |-> q8_lunch_choice,
     water_rank |-> ranks[1], soda_rank |-> ranks[2], juice_rank |-> ranks[3],
     energy_drink_rank |-> ranks[4], coffee_tea_rank |-> ranks[5],
     has_car |-> has_car]

\* a fresh StudentDailyState: the decision-tracking fields at their defaults
StudentDailyState(student_id, available_money, mood, is_drowsy) ==
    [student_id |-> student_id, available_money |-> available_money,
     mood |-> mood, is_drowsy |-> is_drowsy,
     purchased_items |-> <<>>, total_spent |-> 0,
     chose_school_lunch |-> FALSE, chose_fast_food |-> FALSE,
     loss_reason |-> NONE, purchased_from_truck |-> NONE]

(***************************************************************************)
(* The inputs the model draws from: truck catalogs (menu files), student   *)
(* profiles (survey rows) and the day's random draws.                      *)
(***************************************************************************)
\* truck catalogs, as load_menu() accepts them: price > 0, inventory_per_day > 0
TacoTruck(n) ==
    [name |-> "Taco Truck",
     menu |-> << MenuItem("Street Tacos", 500, 5, "food", "savory", "savory", FALSE, n, 650),
                 MenuItem("Horchata", 300, 4, "drink", "juice", "sweet", FALSE, n, 200) >>]

GreenBowl(n) ==
    [name |-> "Green Bowl",
     menu |-> << MenuItem("Garden Bowl", 600, 9, "food", "healthy", "savory", FALSE, n, 350),
                 MenuItem("Cold Brew", 400, 3, "drink", "coffee", "savory", TRUE, n, 15) >>]

\* a second taco truck: the same dishes under another sign, scored alike
TacoStand(n) ==
    [name |-> "Taco Stand",
     menu |-> << MenuItem("Street Tacos", 500, 5, "food", "savory", "savory", FALSE, n, 700),
                 MenuItem("Horchata", 300, 4, "drink", "juice", "sweet", FALSE, n, 210),
                 MenuItem("Tacos al Pastor", 500, 5, "food", "savory", "savory", FALSE, n, 700) >>]

TruckLists ==
    UNION { { <<TacoTruck(n)>>, <<TacoTruck(n), GreenBowl(n)>>, <<GreenBowl(n), TacoTruck(n)>> } :
            n \in 1..MaxInventory }
    \cup { <<TacoTruck(MaxInventory), TacoStand(MaxInventory)>> }

StudentPool == <<
    StudentProfile(1, "Average", "Very active (exercise daily)", "No, I prefer savory",
                   "tacos", <<1, 2, 3, 5, 5>>, FALSE),
    StudentProfile(2, "Average", "Not very active", "Rarely",
                   "fish tacos", <<5, 1, 3, 2, 5>>, FALSE),
    StudentProfile(3, "Fast - I can eat a lot without gaining weight", "Not very active", "Sometimes",
                   "salad", <<2, 5, 1, 5, 3>>, TRUE),
    StudentProfile(4, "Average", "Active (exercise 3-4 times a week)", "Yes, I often crave something sweet",
                   "burger", <<5, 1, 5, 2, 3>>, TRUE) >>

\* the student populations: runs of at most MaxStudents profiles of the pool
Populations ==
    { SubSeq(StudentPool, a, b) :
        <<a, b>> \in { w \in (1..Len(StudentPool)) \X (1..Len(StudentPool)) :
                         w[1] <= w[2] /\ w[2] - w[1] < MaxStudents } }

\* what generate_daily_state can draw for one student: (available_money, mood, is_drowsy)
DailyDraws ==
    { <<0, "junk", FALSE>>, <<300, "healthy", FALSE>>, <<600, "junk", TRUE>>,
      <<1000, "healthy", TRUE>> }

(***************************************************************************)
(* ftsim/scoring/scorer.py                                                 *)
(***************************************************************************)
\* rapidfuzz's best similarity (0..100) of the lowercased item name and favourite:
\* 100 when the favourite is a substring of the name (partial_ratio), a value of
\* the medium band for the near matches, a low value otherwise.
_fuzzy_match_score(item_name, favorite) ==
    CASE favorite = "tacos" /\ item_name \in {"Street Tacos", "Tacos al Pastor"} -> 100
      [] favorite = "fish tacos" /\ item_name \in {"Street Tacos", "Fish Sticks"} -> 76
      [] favorite = "salad" /\ item_name = "Garden Salad" -> 100
      [] favorite = "burger"
           /\ item_name \in {"Veggie Burger", "Hamburger", "Cheeseburger", "Double Bacon Burger"} -> 100
      [] OTHER -> 30

\* the keywords of _score_preference that are substrings of the favourite
KeywordsIn(favorite) ==
    CASE favorite = "tacos" -> {"tacos"}
      [] favorite = "fish tacos" -> {"tacos"}
      [] favorite = "salad" -> {"salad"}
      [] favorite = "burger" -> {"burger"}
      [] OTHER -> {}

_get_drink_category_rank(item, profile) ==
    CASE item.category = "energy" -> profile.energy_drink_rank
      [] item.category = "soda" -> profile.soda_rank
      [] item.category = "juice" -> profile.juice_rank
      [] item.category = "water" -> profile.water_rank
      [] item.category = "milk" -> profile.coffee_tea_rank
      [] item.category = "coffee" -> profile.coffee_tea_rank
      [] OTHER -> 5

\* (preference_score, fuzzy_score)
_score_preference(item, profile) ==
    LET fuzzy_score == _fuzzy_match_score(item.name, profile.q8_lunch_choice)
        kws == KeywordsIn(profile.q8_lunch_choice)
        any(keywords) == kws \cap keywords # {}
        score ==
            IF fuzzy_score >= FUZZY_THRESHOLD_HIGH THEN ONE
            ELSE IF fuzzy_score >= FUZZY_THRESHOLD_MEDIUM THEN <<17, 20>>
            ELSE IF item.item_type = ITEM_TYPE_DRINK
                 THEN RMax(Rat(6 - _get_drink_category_rank(item, profile), 5), <<3, 10>>)
            ELSE IF item.category = "healthy"
                      /\ any({"salad", "veggie", "fruit", "yogurt", "grilled", "wrap"})
                 THEN <<3, 4>>
            ELSE IF item.category = "fried"
                      /\ any({"fries", "burger", "tenders", "rings", "corn dog", "nachos", "cheese"})
                 THEN <<3, 4>>
            ELSE IF item.category = "sweet"
                      /\ any({"brownie", "cookie", "ice cream", "churro", "cinnamon", "funnel", "parfait"})
                 THEN <<3, 4>>
            ELSE IF item.category = "savory"
                      /\ any({"bowl", "wrap", "sandwich", "burrito", "chicken", "beef", "pork", "tacos"})
                 THEN <<7, 10>>
            ELSE IF item.category = "snack" THEN <<1, 2>>
            ELSE <<2, 5>>
    IN  [score |-> score, fuzzy_score |-> fuzzy_score]

\* _score_affordability with the price > money test lost and the remaining
\* fraction clamped at 0 instead: an item out of reach gets the floor 0.3
_score_affordability_ungated(item, state) ==
    IF state.available_money = 0 THEN ZeroDivisionError
    ELSE IF item.price > state.available_money THEN <<3, 10>>
    ELSE LET remaining_fraction == Rat(state.available_money - item.price, state.available_money)
         IN  RAdd(<<3, 10>>, RMul(remaining_fraction, <<7, 10>>))

\* _score_affordability without the floor of 0.3: an item that takes the whole
\* of the money scores 0
_score_affordability_no_floor(item, state) ==
    IF item.price > state.available_money THEN ZERO
    ELSE IF state.available_money = 0 THEN ZeroDivisionError
    ELSE Rat(state.available_money - item.price, state.available_money)

\* raises ZeroDivisionError when available_money = 0 and the price is 0
_score_affordability(item, state) ==
    IF item.price > state.available_money THEN ZERO
    ELSE IF state.available_money = 0 THEN ZeroDivisionError
    ELSE LET remaining_fraction == Rat(state.available_money - item.price, state.available_money)
         IN  RAdd(<<3, 10>>, RMul(remaining_fraction, <<7, 10>>))

\* _score_mood_health with the two moods exchanged
_score_mood_health_swapped(item, state) ==
    LET health_score == Rat(item.health_rating, 10)
    IN  IF state.mood = "healthy" THEN RSub(ONE, health_score) ELSE health_score

_score_mood_health(item, state) ==
    LET health_score == Rat(item.health_rating, 10)
    IN  IF state.mood = "healthy" THEN health_score ELSE RSub(ONE, health_score)

_calculate_bonuses(item, profile, state, fuzzy_score) ==
    LET wants_sweet == profile.q7_wants_sweet \in SWEET_PREFERENCE_VALUES
        prefers_savory == profile.q7_wants_sweet = "No, I prefer savory"
        is_active == profile.q5_activity_level \in HIGH_ACTIVITY_LEVELS
        has_high_metabolism == profile.q3_metabolism \in HIGH_METABOLISM_VALUES
        b1 == IF fuzzy_score >= FUZZY_THRESHOLD_HIGH THEN BONUS_FUZZY_MATCH_HIGH
              ELSE IF fuzzy_score >= FUZZY_THRESHOLD_MEDIUM THEN BONUS_FUZZY_MATCH_MEDIUM
              ELSE ONE
        b2 == IF wants_sweet /\ item.sub_type = "sweet" THEN BONUS_SWEET
              ELSE IF prefers_savory /\ item.sub_type = "savory" THEN BONUS_SAVORY
              ELSE ONE
        b3 == IF state.is_drowsy /\ item.energy_boost THEN BONUS_ENERGY ELSE ONE
        b4 == IF (is_active \/ has_high_metabolism) /\ item.calories >= HIGH_CALORIE_THRESHOLD
              THEN BONUS_HIGH_CALORIE ELSE ONE
        b5 == IF state.mood = "healthy" /\ item.category = "healthy" THEN BONUS_CATEGORY_MATCH
              ELSE IF state.mood = "junk" /\ item.category \in {"fried", "sweet"}
                   THEN BONUS_CATEGORY_MATCH
              ELSE ONE
    IN  RMul(RMul(RMul(RMul(b1, b2), b3), b4), b5)

\* the score, or ZeroDivisionError when _score_affordability raises
score_item(item, profile, state) ==
    LET pref == _score_preference(item, profile)
        affordability_score == _score_affordability(item, state)
        mood_score == _score_mood_health(item, state)
        base_score == RAdd(RAdd(RMul(WEIGHT_PREFERENCE, pref.score),
                                RMul(WEIGHT_AFFORDABILITY, affordability_score)),
                           RMul(WEIGHT_MOOD_HEALTH, mood_score))
        bonus_multiplier == _calculate_bonuses(item, profile, state, pref.fuzzy_score)
    IN  IF affordability_score = ZeroDivisionError THEN ZeroDivisionError
        ELSE IF affordability_score = ZERO THEN ZERO
        ELSE RMul(base_score, bonus_multiplier)

(***************************************************************************)
(* ftsim/models/menu_item.py, ftsim/models/vendors.py: stock and vendors   *)
(***************************************************************************)
\* reset_inventory one unit short of the daily maximum
reset_inventory_short(item) == item.inventory_per_day - 1

\* MenuItem.__post_init__ and MenuItem.reset_inventory: the new _current_inventory
reset_inventory(item) == item.inventory_per_day

\* is_available with the stock test lost: a sold-out item stays on offer
is_available_any_stock(current_inventory) == current_inventory >= 0

\* MenuItem.is_available
is_available(current_inventory) == current_inventory > 0

\* sell_one with the stock test lost: it sells what is not there
sell_one_unguarded(current_inventory) ==
    [ok |-> TRUE, current_inventory |-> current_inventory - 1]

\* MenuItem.sell_one: the value returned and the new _current_inventory
sell_one(current_inventory) ==
    IF current_inventory > 0
    THEN [ok |-> TRUE, current_inventory |-> current_inventory - 1]
    ELSE [ok |-> FALSE, current_inventory |-> current_inventory]

\* sell_item that reports a sale on an empty shelf as made
sell_item_at_will(current_inventory) ==
    [ok |-> TRUE, current_inventory |-> IF current_inventory > 0 THEN current_inventory - 1 ELSE 0]

\* FoodTruck.sell_item
sell_item(current_inventory) == sell_one(current_inventory)

\* the stock of every item of every truck after construction
FullInventory(trks) ==
    [t \in 1..Len(trks) |-> [i \in 1..Len(trks[t].menu) |-> reset_inventory(trks[t].menu[i])]]

\* FoodTruck.reset_inventory, for one truck
FoodTruck_reset_inventory(truck) == [i \in 1..Len(truck.menu) |-> reset_inventory(truck.menu[i])]

\* a vendor: a truck (by its place in the configured list), the cafeteria, the burger joint
Truck(t) == [kind |-> "FoodTruck", index |-> t]
School == [kind |-> "SchoolLunch", index |-> 0]
Burger == [kind |-> "FastFood", index |-> 0]
NoVendor == [kind |-> NONE, index |-> 0]

\* vendor.menu
VendorMenu(v) ==
    IF v.kind = "FoodTruck" THEN trucks[v.index].menu
    ELSE IF v.kind = "SchoolLunch" THEN daily_menu
    ELSE _BURGER_JOINT_MENU

\* the places of S in increasing order: the order of a list comprehension
RECURSIVE Ascending(_)
Ascending(S) ==
    IF S = {} THEN <<>>
    ELSE LET m == CHOOSE x \in S : \A y \in S : x <= y
         IN  <<m>> \o Ascending(S \ {m})

\* get_available_items without the is_available filter: the whole menu
get_available_items_all(v, inv) == Ascending(1..Len(VendorMenu(v)))

\* get_available_items of the three vendor classes, as places in vendor.menu;
\* inv is the stock of every truck item
get_available_items(v, inv) ==
    Ascending({ i \in 1..Len(VendorMenu(v)) :
                  v.kind # "FoodTruck" \/ is_available(inv[v.index][i]) })

get_available_food(v, inv) ==
    SelectSeq(get_available_items(v, inv), LAMBDA i : VendorMenu(v)[i].item_type = "food")

get_available_drinks(v, inv) ==
    SelectSeq(get_available_items(v, inv), LAMBDA i : VendorMenu(v)[i].item_type = "drink")

(***************************************************************************)
(* ftsim/simulation/decision.py                                            *)
(***************************************************************************)
\* one scoring loop of _find_best_items_for_truck over the places `items` of
\* `menu`: the best place (0 for None) and its score; the loop ends with
\* ZeroDivisionError as soon as score_item raises
RECURSIVE BestItem(_, _, _, _, _, _)
RECURSIVE BestItemStep(_, _, _, _, _, _, _)
\* BestItemStep with >= for >: of items that score alike the last one is kept
BestItemStep_last_wins(menu, items, profile, state, best, best_score, score) ==
    IF score = ZeroDivisionError THEN [item |-> 0, score |-> ZeroDivisionError]
    ELSE IF ~RGreater(best_score, score)
         THEN BestItem(menu, Tail(items), profile, state, Head(items), score)
         ELSE BestItem(menu, Tail(items), profile, state, best, best_score)

\* the body of the loop for the item at place Head(items), whose score is `score`
BestItemStep(menu, items, profile, state, best, best_score, score) ==
    IF score = ZeroDivisionError THEN [item |-> 0, score |-> ZeroDivisionError]
    ELSE IF RGreater(score, best_score)
         THEN BestItem(menu, Tail(items), profile, state, Head(items), score)
         ELSE BestItem(menu, Tail(items), profile, state, best, best_score)

BestItem(menu, items, profile, state, best, best_score) ==
    IF items = <<>> THEN [item |-> best, score |-> best_score]
    ELSE BestItemStep(menu, items, profile, state, best, best_score,
                      score_item(menu[Head(items)], profile, state))

\* CombinedScore without the penalty for the meal left incomplete
CombinedScore_no_penalty(menu, food, drink, state) ==
    IF food.item # 0 /\ drink.item # 0
          /\ menu[food.item].price + menu[drink.item].price <= state.available_money
    THEN RMax(food.score, RMul(RAdd(food.score, drink.score), <<2, 3>>))
    ELSE food.score

\* the combined score of a vendor's best food and best drink
CombinedScore(menu, food, drink, state) ==
    IF food.item # 0 /\ drink.item # 0
    THEN IF menu[food.item].price + menu[drink.item].price <= state.available_money
         THEN RMax(food.score, RMul(RAdd(food.score, drink.score), <<2, 3>>))
         ELSE RMul(food.score, PENALTY_NO_DRINK)
    ELSE food.score

\* TruckOption(truck, best_food, best_drink, combined_score) from the results
\* of the two loops; best_food and best_drink are places in the vendor's menu,
\* 0 for None; combined_score is ZeroDivisionError when the scoring raised
TruckOption(v, menu, food, drink, state) ==
    IF food.score = ZeroDivisionError \/ drink.score = ZeroDivisionError
    THEN [truck |-> v, best_food |-> 0, best_drink |-> 0,
          combined_score |-> ZeroDivisionError]
    ELSE [truck |-> v, best_food |-> food.item, best_drink |-> drink.item,
          combined_score |-> CombinedScore(menu, food, drink, state)]

_find_best_items_for_truck(v, inv, profile, state) ==
    TruckOption(v, VendorMenu(v),
                BestItem(VendorMenu(v), get_available_food(v, inv), profile, state, 0, ZERO),
                BestItem(VendorMenu(v), get_available_drinks(v, inv), profile, state, 0, ZERO),
                state)

\* no TruckOption (None)
NoOption == [truck |-> NoVendor, best_food |-> 0, best_drink |-> 0, combined_score |-> ZERO]

\* the loop of _find_best_items over the trucks t..Len(trucks)
RECURSIVE BestTruck(_, _, _, _, _)
RECURSIVE BestTruckStep(_, _, _, _, _, _)
\* BestTruckStep with >= for >: of trucks that score alike the last one is kept
BestTruckStep_last_wins(t, inv, profile, state, best_option, option) ==
    IF option.combined_score = ZeroDivisionError THEN option
    ELSE IF option.best_food # 0
            /\ (best_option = NoOption
                \/ ~RGreater(best_option.combined_score, option.combined_score))
         THEN BestTruck(t + 1, inv, profile, state, option)
         ELSE BestTruck(t + 1, inv, profile, state, best_option)

\* the body of the loop for truck t, whose option is `option`
BestTruckStep(t, inv, profile, state, best_option, option) ==
    IF option.combined_score = ZeroDivisionError THEN option
    ELSE IF option.best_food # 0
            /\ (best_option = NoOption
                \/ RGreater(option.combined_score, best_option.combined_score))
         THEN BestTruck(t + 1, inv, profile, state, option)
         ELSE BestTruck(t + 1, inv, profile, state, best_option)

BestTruck(t, inv, profile, state, best_option) ==
    IF t > Len(trucks) THEN best_option
    ELSE BestTruckStep(t, inv, profile, state, best_option,
                       _find_best_items_for_truck(Truck(t), inv, profile, state))

_find_best_items(inv, profile, state) == BestTruck(1, inv, profile, state, NoOption)

\* max(candidates, key=combined_score): the first candidate of the greatest score
RECURSIVE MaxCandidate(_, _)
MaxCandidate(candidates, best) ==
    IF candidates = <<>> THEN best
    ELSE IF RGreater(Head(candidates).combined_score, best.combined_score)
         THEN MaxCandidate(Tail(candidates), Head(candidates))
         ELSE MaxCandidate(Tail(candidates), best)

\* the candidate list of make_decision
Candidates(best_truck, school_option, burger_option) ==
    (IF best_truck # NoOption /\ best_truck.best_food # 0 THEN <<best_truck>> ELSE <<>>)
    \o (IF school_option.best_food # 0 THEN <<school_option>> ELSE <<>>)
    \o (IF burger_option # NoOption /\ burger_option.best_food # 0 THEN <<burger_option>> ELSE <<>>)

\* Purchase with the drink priced against the whole of available_money
Purchase_drink_on_full_money(winner, inv, state) ==
    LET t == winner.truck.index
        menu == trucks[t].menu
        best_food == winner.best_food
        best_drink == winner.best_drink
        try_food == best_food # 0 /\ menu[best_food].price <= state.available_money
        food_sale == IF try_food THEN sell_item(inv[t][best_food])
                     ELSE [ok |-> FALSE, current_inventory |-> 0]
        inv1 == IF try_food
                THEN [inv EXCEPT ![t][best_food] = food_sale.current_inventory]
                ELSE inv
        state1 == IF food_sale.ok
                  THEN [state EXCEPT !.purchased_items = Append(@, menu[best_food]),
                                     !.total_spent = @ + menu[best_food].price,
                                     !.purchased_from_truck = trucks[t].name]
                  ELSE state
        remaining_money == IF food_sale.ok
                           THEN state.available_money - menu[best_food].price
                           ELSE state.available_money
        try_drink == best_drink # 0 /\ menu[best_drink].price <= state.available_money
        drink_sale == IF try_drink THEN sell_item(inv1[t][best_drink])
                      ELSE [ok |-> FALSE, current_inventory |-> 0]
        inv2 == IF try_drink
                THEN [inv1 EXCEPT ![t][best_drink] = drink_sale.current_inventory]
                ELSE inv1
        state2 == IF drink_sale.ok
                  THEN [state1 EXCEPT !.purchased_items = Append(@, menu[best_drink]),
                                      !.total_spent = @ + menu[best_drink].price]
                  ELSE state1
        state3 == IF state2.purchased_items = <<>>
                  THEN [state2 EXCEPT !.chose_school_lunch = TRUE,
                                      !.loss_reason = LOSS_REASON_STOCKOUT,
                                      !.purchased_from_truck = NONE]
                  ELSE state2
    IN  [state |-> state3, inventory |-> inv2, raised |-> NONE]

\* Purchase with the drink handed over unpaid: total_spent stays at the food price
Purchase_drink_unpaid(winner, inv, state) ==
    LET t == winner.truck.index
        menu == trucks[t].menu
        best_food == winner.best_food
        best_drink == winner.best_drink
        try_food == best_food # 0 /\ menu[best_food].price <= state.available_money
        food_sale == IF try_food THEN sell_item(inv[t][best_food])
                     ELSE [ok |-> FALSE, current_inventory |-> 0]
        inv1 == IF try_food
                THEN [inv EXCEPT ![t][best_food] = food_sale.current_inventory]
                ELSE inv
        state1 == IF food_sale.ok
                  THEN [state EXCEPT !.purchased_items = Append(@, menu[best_food]),
                                     !.total_spent = @ + menu[best_food].price,
                                     !.purchased_from_truck = trucks[t].name]
                  ELSE state
        remaining_money == IF food_sale.ok
                           THEN state.available_money - menu[best_food].price
                           ELSE state.available_money
        try_drink == best_drink # 0 /\ menu[best_drink].price <= remaining_money
        drink_sale == IF try_drink THEN sell_item(inv1[t][best_drink])
                      ELSE [ok |-> FALSE, current_inventory |-> 0]
        inv2 == IF try_drink
                THEN [inv1 EXCEPT ![t][best_drink] = drink_sale.current_inventory]
                ELSE inv1
        state2 == IF drink_sale.ok
                  THEN [state1 EXCEPT !.purchased_items = Append(@, menu[best_drink])]
                  ELSE state1
        state3 == IF state2.purchased_items = <<>>
                  THEN [state2 EXCEPT !.chose_school_lunch = TRUE,
                                      !.loss_reason = LOSS_REASON_STOCKOUT,
                                      !.purchased_from_truck = NONE]
                  ELSE state2
    IN  [state |-> state3, inventory |-> inv2, raised |-> NONE]

\* the purchase of make_decision from the winning truck: the state and the stock after it
Purchase(winner, inv, state) ==
    LET t == winner.truck.index
        menu == trucks[t].menu
        best_food == winner.best_food
        best_drink == winner.best_drink
        try_food == best_food # 0 /\ menu[best_food].price <= state.available_money
        food_sale == IF try_food THEN sell_item(inv[t][best_food])
                     ELSE [ok |-> FALSE, current_inventory |-> 0]
        inv1 == IF try_food
                THEN [inv EXCEPT ![t][best_food] = food_sale.current_inventory]
                ELSE inv
        state1 == IF food_sale.ok
                  THEN [state EXCEPT !.purchased_items = Append(@, menu[best_food]),
                                     !.total_spent = @ + menu[best_food].price,
                                     !.purchased_from_truck = trucks[t].name]
                  ELSE state
        remaining_money == IF food_sale.ok
                           THEN state.available_money - menu[best_food].price
                           ELSE state.available_money
        try_drink == best_drink # 0 /\ menu[best_drink].price <= remaining_money
        drink_sale == IF try_drink THEN sell_item(inv1[t][best_drink])
                      ELSE [ok |-> FALSE, current_inventory |-> 0]
        inv2 == IF try_drink
                THEN [inv1 EXCEPT ![t][best_drink] = drink_sale.current_inventory]
                ELSE inv1
        state2 == IF drink_sale.ok
                  THEN [state1 EXCEPT !.purchased_items = Append(@, menu[best_drink]),
                                      !.total_spent = @ + menu[best_drink].price]
                  ELSE state1
        state3 == IF state2.purchased_items = <<>>
                  THEN [state2 EXCEPT !.chose_school_lunch = TRUE,
                                      !.loss_reason = LOSS_REASON_STOCKOUT,
                                      !.purchased_from_truck = NONE]
                  ELSE state2
    IN  [state |-> state3, inventory |-> inv2, raised |-> NONE]

\* Decide with a fast-food win booked like a cafeteria win
Decide_one_loss_reason(best_truck, school_option, burger_option, winner, inv, state) ==
    IF best_truck.combined_score = ZeroDivisionError
       \/ school_option.combined_score = ZeroDivisionError
       \/ burger_option.combined_score = ZeroDivisionError
    THEN [state |-> state, inventory |-> inv, raised |-> "ZeroDivisionError"]
    ELSE IF Candidates(best_truck, school_option, burger_option) = <<>>
    THEN [state |-> [state EXCEPT !.chose_school_lunch = TRUE,
                                  !.loss_reason = LOSS_REASON_STOCKOUT],
          inventory |-> inv, raised |-> NONE]
    ELSE IF winner.truck.kind \in {"SchoolLunch", "FastFood"}
    THEN [state |-> [state EXCEPT !.chose_school_lunch = TRUE,
                                  !.loss_reason = LOSS_REASON_SCHOOL_LUNCH],
          inventory |-> inv, raised |-> NONE]
    ELSE Purchase(winner, inv, state)

\* make_decision from line 137 on: the candidates, the winner and the outcome
Decide(best_truck, school_option, burger_option, winner, inv, state) ==
    IF best_truck.combined_score = ZeroDivisionError
       \/ school_option.combined_score = ZeroDivisionError
       \/ burger_option.combined_score = ZeroDivisionError
    THEN [state |-> state, inventory |-> inv, raised |-> "ZeroDivisionError"]
    ELSE IF Candidates(best_truck, school_option, burger_option) = <<>>
    THEN [state |-> [state EXCEPT !.chose_school_lunch = TRUE,
                                  !.loss_reason = LOSS_REASON_STOCKOUT],
          inventory |-> inv, raised |-> NONE]
    ELSE IF winner.truck.kind = "SchoolLunch"
    THEN [state |-> [state EXCEPT !.chose_school_lunch = TRUE,
                                  !.loss_reason = LOSS_REASON_SCHOOL_LUNCH],
          inventory |-> inv, raised |-> NONE]
    ELSE IF winner.truck.kind = "FastFood"
    THEN [state |-> [state EXCEPT !.chose_fast_food = TRUE,
                                  !.loss_reason = LOSS_REASON_FASTFOOD],
          inventory |-> inv, raised |-> NONE]
    ELSE Purchase(winner, inv, state)

\* winner = max(candidates, key=lambda c: c.combined_score); NoOption stands
\* for the winner of an empty list, which the code never computes
Winner(candidates) ==
    IF candidates = <<>> THEN NoOption
    ELSE MaxCandidate(Tail(candidates), Head(candidates))

\* lines 123-134: the options of the three kinds of vendor
Options(best_truck, school_option, burger_option, inv, state) ==
    Decide(best_truck, school_option, burger_option,
           Winner(Candidates(best_truck, school_option, burger_option)), inv, state)

\* make_decision with the has_car test lost: the burger joint is evaluated
\* for every student
make_decision_any_car(profile, state, inv) ==
    Options(_find_best_items(inv, profile, state),
            _find_best_items_for_truck(School, inv, profile, state),
            _find_best_items_for_truck(Burger, inv, profile, state),
            inv, state)

\* make_decision(profile, state, trucks, school_lunch, fast_food) with the truck
\* stock inv: the state and the stock after the call, and the exception raised
make_decision(profile, state, inv) ==
    Options(_find_best_items(inv, profile, state),
            _find_best_items_for_truck(School, inv, profile, state),
            IF profile.has_car
            THEN _find_best_items_for_truck(Burger, inv, profile, state)
            ELSE NoOption,
            inv, state)

(***************************************************************************)
(* ftsim/models/vendors.py: SchoolLunch.generate_daily_menu                *)
(***************************************************************************)
\* config.py as given defines neither count; the menu has a fixed size
SCHOOL_LUNCH_DAILY_FOOD_COUNT == 2
SCHOOL_LUNCH_DAILY_DRINK_COUNT == 1

\* the pool places the model samples from: Turkey Sandwich, Garden Salad;
\* Apple Juice, Water
FoodPlaces == {4, 6}
DrinkPlaces == {2, 4}

\* random.sample(pool, k): the sequences of k different places
Samples(places, k) ==
    { q \in [1..k -> places] : \A i, j \in 1..k : i # j => q[i] # q[j] }

\* the menus generate_daily_menu can draw: food_picks + drink_picks
DailyMenus ==
    { [i \in 1..Len(f) |-> _SCHOOL_LUNCH_FOOD_POOL[f[i]]]
        \o [i \in 1..Len(d) |-> _SCHOOL_LUNCH_DRINK_POOL[d[i]]] :
      <<f, d>> \in Samples(FoodPlaces, SCHOOL_LUNCH_DAILY_FOOD_COUNT)
                   \X Samples(DrinkPlaces, SCHOOL_LUNCH_DAILY_DRINK_COUNT) }

(***************************************************************************)
(* ftsim/simulation/daily_state.py and the shuffle of engine.py            *)
(***************************************************************************)
\* generate_daily_states(profiles) followed by random.shuffle: every order of
\* the population, every draw for every student
ShuffledDailyStates(profiles) ==
    { [k \in 1..Len(profiles) |->
          StudentDailyState(profiles[order[k]].student_id, draw[k][1], draw[k][2], draw[k][3])] :
      <<order, draw>> \in Samples(1..Len(profiles), Len(profiles))
                           \X [1..Len(profiles) -> DailyDraws] }

\* profile_lookup[student_id]
profile_lookup(student_id) ==
    students[CHOOSE k \in 1..Len(students) : students[k].student_id = student_id]

(***************************************************************************)
(* State shared by the specifications                                      *)
(***************************************************************************)
Range(f) == { f[x] : x \in DOMAIN f }

\* what every specification starts from: the engine's inputs and fresh vendors
Constructed ==
    /\ inventory = FullInventory(trucks)
    /\ daily_menu = <<>>
    /\ pending = <<>>
    /\ chosen = <<>>
    /\ truck_option = NoOption
    /\ decided = <<>>
    /\ day = 0
    /\ daily_results = <<>>
    /\ aggregate = NONE
    /\ raised = NONE
    /\ sale_ok = NONE

NoScoring ==
    /\ sc_item = NONE
    /\ sc_profile = NONE
    /\ sc_state = NONE
    /\ sc_result = <<>>

scoring_vars == <<sc_item, sc_profile, sc_state, sc_result>>
engine_vars == <<day, daily_results, aggregate>>
input_vars == <<trucks, students, num_days>>

(***************************************************************************)
(* Spec: SimulationEngine.run() as engine.py has it                        *)
(***************************************************************************)
Init ==
    /\ trucks \in TruckLists
    /\ Constructed
    /\ NoScoring
    /\ students \in Populations
    /\ num_days \in 1..MaxDays
    /\ pc = "run"

\* run(), the for loop enters _run_day(day); _run_day lines 53-55: every
\* truck's stock is reset
RunDayResetInventory ==
    /\ pc = "run"
    /\ day < num_days
    /\ day' = day + 1
    /\ inventory' = [t \in 1..Len(trucks) |-> FoodTruck_reset_inventory(trucks[t])]
    /\ pc' = "generate_daily_price"
    /\ UNCHANGED <<input_vars, chosen, truck_option, daily_menu, pending, decided,
                   daily_results, aggregate, raised, sale_ok, scoring_vars>>

\* _run_day line 58: self.school_lunch.generate_daily_price(); SchoolLunch
\* has no such attribute, so the call raises AttributeError, which neither
\* _run_day nor run() catches
RunDayGenerateDailyPrice ==
    /\ pc = "generate_daily_price"
    /\ raised' = "AttributeError"
    /\ pc' = "raised"
    /\ UNCHANGED <<input_vars, chosen, truck_option, inventory, daily_menu, pending,
                   decided, engine_vars, sale_ok, scoring_vars>>

Next == RunDayResetInventory \/ RunDayGenerateDailyPrice

Spec == Init /\ [][Next]_vars

(***************************************************************************)
(* SpecStock: the stock operations of a truck, called in any order         *)
(***************************************************************************)
InitStock ==
    /\ trucks \in TruckLists
    /\ Constructed
    /\ NoScoring
    /\ students = <<>>
    /\ num_days = 0
    /\ pc = "stock"

\* for truck in trucks: truck.reset_inventory()
ResetInventory ==
    /\ pc = "stock"
    /\ inventory' = [t \in 1..Len(trucks) |-> FoodTruck_reset_inventory(trucks[t])]
    /\ sale_ok' = NONE
    /\ UNCHANGED <<input_vars, chosen, truck_option, daily_menu, pending, decided,
                   engine_vars, pc, raised, scoring_vars>>

\* truck.sell_item(item)
SellItem ==
    /\ pc = "stock"
    /\ \E t \in 1..Len(trucks) : \E i \in 1..Len(trucks[t].menu) :
         LET sale == sell_item(inventory[t][i])
         IN  /\ inventory' = [inventory EXCEPT ![t][i] = sale.current_inventory]
             /\ sale_ok' = IF sale.ok THEN "True" ELSE "False"
    /\ UNCHANGED <<input_vars, chosen, truck_option, daily_menu, pending, decided,
                   engine_vars, pc, raised, scoring_vars>>

NextStock == ResetInventory \/ SellItem

SpecStock == InitStock /\ [][NextStock]_vars

(***************************************************************************)
(* SpecScore: score_item applied to an item, a profile and a daily state   *)
(***************************************************************************)
\* a truck item of price 5.00 and health rating 8 that earns student 1 the
\* fuzzy bonus and no other
ScenarioAItem == MenuItem("Tacos al Pastor", 500, 8, "food", "savory", "sweet", FALSE, 1, 400)

ScoreItems ==
    Range(_SCHOOL_LUNCH_FOOD_POOL) \cup Range(_SCHOOL_LUNCH_DRINK_POOL)
    \cup Range(_BURGER_JOINT_MENU) \cup {ScenarioAItem}
    \cup UNION { Range(TacoTruck(n).menu) \cup Range(GreenBowl(n).menu) : n \in 1..MaxInventory }

InitScore ==
    /\ trucks = <<>>
    /\ Constructed
    /\ students = <<>>
    /\ num_days = 0
    /\ pc = "score_item"
    /\ sc_item \in ScoreItems
    /\ sc_profile \in Range(StudentPool)
    /\ sc_state \in { StudentDailyState(sc_profile.student_id, d[1], d[2], d[3]) : d \in DailyDraws }
    /\ sc_result = <<>>

ScoreItem ==
    /\ pc = "score_item"
    /\ sc_result' = score_item(sc_item, sc_profile, sc_state)
    /\ raised' = IF sc_result' = ZeroDivisionError THEN "ZeroDivisionError" ELSE NONE
    /\ pc' = IF sc_result' = ZeroDivisionError THEN "raised" ELSE "returned"
    /\ UNCHANGED <<input_vars, chosen, truck_option, inventory, daily_menu, pending,
                   decided, engine_vars, sale_ok, sc_item, sc_profile, sc_state>>

NextScore == ScoreItem

SpecScore == InitScore /\ [][NextScore]_vars

(***************************************************************************)
(* SpecDecision: one day after another through the vendors' and the        *)
(* decision's own interface: reset, daily menu, daily states in a random   *)
(* order, make_decision(profile, state, trucks, school_lunch, fast_food)   *)
(* for each state in turn                                                  *)
(***************************************************************************)
InitDecision ==
    /\ trucks \in TruckLists
    /\ Constructed
    /\ NoScoring
    /\ students \in Populations
    /\ num_days = 0
    /\ pc = "reset_inventory"

\* for truck in trucks: truck.reset_inventory(); yesterday's states are dropped
DayResetInventory ==
    /\ pc = "reset_inventory"
    /\ inventory' = [t \in 1..Len(trucks) |-> FoodTruck_reset_inventory(trucks[t])]
    /\ decided' = <<>>
    /\ pc' = "generate_daily_menu"
    /\ UNCHANGED <<input_vars, chosen, truck_option, daily_menu, pending, engine_vars,
                   raised, sale_ok, scoring_vars>>

\* school_lunch.generate_daily_menu()
GenerateDailyMenu ==
    /\ pc = "generate_daily_menu"
    /\ daily_menu' \in DailyMenus
    /\ pc' = "generate_daily_states"
    /\ UNCHANGED <<input_vars, chosen, truck_option, inventory, pending, decided,
                   engine_vars, raised, sale_ok, scoring_vars>>

\* generate_daily_states(students); random.shuffle(daily_states).  A caller
\* that has not regenerated the menu decides on the menu as it stands.
GenerateDailyStates ==
    /\ pc \in {"generate_daily_menu", "generate_daily_states"}
    /\ pending' \in ShuffledDailyStates(students)
    /\ pc' = "make_decision"
    /\ UNCHANGED <<input_vars, chosen, truck_option, inventory, daily_menu, decided,
                   engine_vars, raised, sale_ok, scoring_vars>>

\* what a call of make_decision that ended as r leaves behind
Returned(r) ==
    IF r.raised # NONE
    THEN /\ raised' = r.raised
         /\ pc' = "raised"
         /\ UNCHANGED <<inventory, pending, decided>>
    ELSE /\ inventory' = r.inventory
         /\ decided' = Append(decided, r.state)
         /\ pending' = Tail(pending)
         /\ UNCHANGED <<raised, pc>>

\* make_decision for the next state of the day
MakeDecision ==
    /\ pc = "make_decision"
    /\ pending # <<>>
    /\ Returned(make_decision(profile_lookup(Head(pending).student_id), Head(pending), inventory))
    /\ UNCHANGED <<input_vars, chosen, truck_option, daily_menu, engine_vars, sale_ok, scoring_vars>>

\* every state of the day is decided: the next day starts
EndDay ==
    /\ pc = "make_decision"
    /\ pending = <<>>
    /\ pc' = "reset_inventory"
    /\ UNCHANGED <<input_vars, chosen, truck_option, inventory, daily_menu, pending,
                   decided, engine_vars, raised, sale_ok, scoring_vars>>

NextDecision ==
    \/ DayResetInventory
    \/ GenerateDailyMenu
    \/ GenerateDailyStates
    \/ MakeDecision
    \/ EndDay

SpecDecision == InitDecision /\ [][NextDecision]_vars

(***************************************************************************)
(* SpecInterleaved: the day of SpecDecision under a caller that runs the   *)
(* make_decision calls of the day side by side.  A call is two steps: its  *)
(* scoring (lines 119-164, up to the choice of the winner) and its         *)
(* purchase (lines 166-191); between the two steps of one call the steps   *)
(* of the others may fall.                                                 *)
(***************************************************************************)
\* lines 137-164 for the state at the head of pending, given the winner: a
\* call whose winner is a truck halts before line 166, any other returns
ScoreStep(winner, outcome) ==
    IF winner.truck.kind = "FoodTruck"
    THEN /\ chosen' = Append(chosen, [state |-> Head(pending), winner |-> winner])
         /\ UNCHANGED decided
    ELSE /\ decided' = Append(decided, outcome.state)
         /\ UNCHANGED chosen

\* lines 137-164 for the state at the head of pending, given the options
ScoreCandidates(best_truck, school_option, burger_option, winner) ==
    IF best_truck.combined_score = ZeroDivisionError
       \/ school_option.combined_score = ZeroDivisionError
       \/ burger_option.combined_score = ZeroDivisionError
    THEN /\ raised' = "ZeroDivisionError"
         /\ pc' = "raised"
         /\ UNCHANGED <<pending, chosen, decided>>
    ELSE /\ ScoreStep(winner, Decide(best_truck, school_option, burger_option, winner,
                                     inventory, Head(pending)))
         /\ pending' = Tail(pending)
         /\ UNCHANGED <<raised, pc>>

\* lines 119-164 for the state at the head of pending, given the options
ScoreOptions(best_truck, school_option, burger_option) ==
    ScoreCandidates(best_truck, school_option, burger_option,
                    Winner(Candidates(best_truck, school_option, burger_option)))

\* lines 119-134 for a state and its profile
ScoreVendors(profile, state) ==
    ScoreOptions(_find_best_items(inventory, profile, state),
                 _find_best_items_for_truck(School, inventory, profile, state),
                 IF profile.has_car
                 THEN _find_best_items_for_truck(Burger, inventory, profile, state)
                 ELSE NoOption)

\* the scoring of the next call of the day
InterleavedScore ==
    /\ pc = "make_decision"
    /\ pending # <<>>
    /\ ScoreVendors(profile_lookup(Head(pending).student_id), Head(pending))
    /\ UNCHANGED <<input_vars, truck_option, inventory, daily_menu, engine_vars, sale_ok,
                   scoring_vars>>

\* what the purchase of the k-th halted call leaves behind
Bought(k, r) ==
    /\ inventory' = r.inventory
    /\ decided' = Append(decided, r.state)
    /\ chosen' = SubSeq(chosen, 1, k - 1) \o SubSeq(chosen, k + 1, Len(chosen))

\* the purchase of one of the halted calls, on the stock as it is by now
InterleavedPurchase ==
    /\ pc = "make_decision"
    /\ \E k \in 1..Len(chosen) : Bought(k, Purchase(chosen[k].winner, inventory, chosen[k].state))
    /\ UNCHANGED <<input_vars, truck_option, daily_menu, pending, engine_vars, pc, raised,
                   sale_ok, scoring_vars>>

\* every call of the day has returned: the next day starts
EndInterleavedDay ==
    /\ pc = "make_decision"
    /\ pending = <<>>
    /\ chosen = <<>>
    /\ pc' = "reset_inventory"
    /\ UNCHANGED <<input_vars, chosen, truck_option, inventory, daily_menu, pending,
                   decided, engine_vars, raised, sale_ok, scoring_vars>>

NextInterleaved ==
    \/ DayResetInventory
    \/ GenerateDailyMenu
    \/ GenerateDailyStates
    \/ InterleavedScore
    \/ InterleavedPurchase
    \/ EndInterleavedDay

SpecInterleaved == InitDecision /\ [][NextInterleaved]_vars

(***************************************************************************)
(* SpecOptions: _find_best_items_for_truck(truck, profile, state) applied  *)
(* to a vendor, a profile and a daily state, with every item of every      *)
(* truck either at its daily stock or sold out                             *)
(***************************************************************************)
\* the stocks of the trucks trks with each item full or sold out
Stocks(trks) ==
    { [t \in 1..Len(trks) |->
         [i \in 1..Len(trks[t].menu) |->
            IF <<t, i>> \in sold_out THEN 0 ELSE reset_inventory(trks[t].menu[i])]] :
      sold_out \in SUBSET UNION { { <<t, i>> : i \in 1..Len(trks[t].menu) } : t \in 1..Len(trks) } }

InitOptions ==
    /\ trucks \in TruckLists
    /\ students \in { p \in Populations : Len(p) = 1 }
    /\ num_days = 0
    /\ inventory \in Stocks(trucks)
    /\ daily_menu \in DailyMenus
    /\ pending \in { <<StudentDailyState(students[1].student_id, d[1], d[2], d[3])>> :
                      d \in DailyDraws }
    /\ chosen = <<>>
    /\ truck_option = NoOption
    /\ decided = <<>>
    /\ day = 0
    /\ daily_results = <<>>
    /\ aggregate = NONE
    /\ raised = NONE
    /\ sale_ok = NONE
    /\ NoScoring
    /\ pc = "find_best_items_for_truck"

\* truck_option = _find_best_items_for_truck(truck, profile, state) for one of the vendors
FindBestItemsForTruck ==
    /\ pc = "find_best_items_for_truck"
    /\ \E v \in { Truck(t) : t \in 1..Len(trucks) } \cup {School, Burger} :
         truck_option' = _find_best_items_for_truck(v, inventory, students[1], pending[1])
    /\ raised' = IF truck_option'.combined_score = ZeroDivisionError
                 THEN "ZeroDivisionError" ELSE NONE
    /\ pc' = IF truck_option'.combined_score = ZeroDivisionError THEN "raised" ELSE "returned"
    /\ UNCHANGED <<input_vars, chosen, inventory, daily_menu, pending, decided,
                   engine_vars, sale_ok, scoring_vars>>

NextOptions == FindBestItemsForTruck

SpecOptions == InitOptions /\ [][NextOptions]_vars

(***************************************************************************)
(* Properties of the stock (SpecStock)                                     *)
(***************************************************************************)
\* C1: for every item of every truck, in every reachable state (after
\* construction, after each reset, after each successful or failed sale),
\* 0 <= current_inventory <= inventory_per_day.
InventoryInvariant ==
    \A t \in 1..Len(trucks) : \A i \in 1..Len(trucks[t].menu) :
        /\ 0 <= inventory[t][i]
        /\ inventory[t][i] <= trucks[t].menu[i].inventory_per_day

\* a sale was refused on an item of stock 0 while another item is still full
FailedSaleSeen ==
    /\ pc = "stock"
    /\ sale_ok = "False"
    /\ \E t \in 1..Len(trucks) : \E i, j \in 1..Len(trucks[t].menu) :
         /\ inventory[t][i] = 0
         /\ inventory[t][j] = trucks[t].menu[j].inventory_per_day

(***************************************************************************)
(* Properties of the scoring (SpecScore)                                   *)
(***************************************************************************)
\* C7: the affordability subscore special-cases the degenerate amounts: with
\* available_money exactly 0 every positive-priced item gets 0, and a
\* zero-price item gets 0.3 + 0.7 x 1.0 for every available_money >= 0, 0
\* included, without a division by zero.
DegenerateMoneySpecialCased ==
    pc \in {"returned", "raised"} =>
        /\ _score_affordability(sc_item, sc_state) # ZeroDivisionError
        /\ (sc_state.available_money = 0 /\ sc_item.price > 0
              => _score_affordability(sc_item, sc_state) = ZERO)
        /\ (sc_item.price = 0
              => _score_affordability(sc_item, sc_state) = RAdd(<<3, 10>>, RMul(<<7, 10>>, ONE)))

\* C8: the score of an item is exactly 0 whenever item.price >
\* state.available_money, whatever its other attributes, the fuzzy match and
\* the bonuses.
AffordabilityGate ==
    (pc \in {"returned", "raised"} /\ sc_item.price > sc_state.available_money)
        => (pc = "returned" /\ sc_result = ZERO)

\* an item out of reach was scored although it is the student's favourite
\* and the mood's category bonus applies
GateClosedOnFavourite ==
    /\ pc = "returned"
    /\ sc_item.price > sc_state.available_money
    /\ sc_state.available_money > 0
    /\ _score_preference(sc_item, sc_profile).fuzzy_score >= FUZZY_THRESHOLD_HIGH
    /\ RGreater(_calculate_bonuses(sc_item, sc_profile, sc_state,
                                   _score_preference(sc_item, sc_profile).fuzzy_score), ONE)
    /\ sc_result = ZERO

(***************************************************************************)
(* Properties of the decision (SpecDecision)                               *)
(***************************************************************************)
\* C6: the decision never raises: for every profile, every daily state with
\* available_money >= 0 (0 included) and every vendor situation, it completes
\* and records an outcome, a purchase or a loss reason.
DecisionNeverRaises ==
    /\ raised = NONE
    /\ pc # "raised"
    /\ \A k \in 1..Len(decided) :
         decided[k].purchased_items # <<>> \/ decided[k].loss_reason # NONE

\* the daily state a decided student entered make_decision with
Fresh(s) == StudentDailyState(s.student_id, s.available_money, s.mood, s.is_drowsy)

\* with the stock inv, the decision for `state` buys item i of truck t as its food
TopChoice(t, i, state, inv) ==
    LET r == make_decision(profile_lookup(state.student_id), state, inv)
    IN  /\ r.raised = NONE
        /\ r.state.purchased_from_truck = trucks[t].name
        /\ r.state.purchased_items # <<>>
        /\ Head(r.state.purchased_items) = trucks[t].menu[i]

\* Scenario C, as the second student is about to decide: the student before
\* bought item i of truck t, which took its stock from 1 to 0, and with one
\* unit of it in stock the next student would buy it too
ScenarioC(t, i) ==
    /\ pc = "make_decision"
    /\ pending # <<>>
    /\ decided # <<>>
    /\ inventory[t][i] = 0
    /\ decided[Len(decided)].purchased_from_truck = trucks[t].name
    /\ Head(decided[Len(decided)].purchased_items) = trucks[t].menu[i]
    /\ TopChoice(t, i, Head(pending), [inventory EXCEPT ![t][i] = 1])

\* the vendors make_decision looks at for a profile
VendorsFor(profile) ==
    { Truck(t) : t \in 1..Len(trucks) } \cup {School}
    \cup (IF profile.has_car THEN {Burger} ELSE {})

\* no vendor has a food item in stock that the student can pay
NoFoodLeft(state) ==
    \A v \in VendorsFor(profile_lookup(state.student_id)) :
        \A i \in 1..Len(VendorMenu(v)) :
            (/\ VendorMenu(v)[i].item_type = ITEM_TYPE_FOOD
             /\ (v.kind = "FoodTruck" => inventory[v.index][i] > 0))
                => VendorMenu(v)[i].price > state.available_money

\* C5 as stated: in Scenario C the second student's purchase attempt fails and
\* the student ends the day with loss reason "stockout".
SecondStudentStockout ==
    [][\A t \in 1..Len(trucks) : \A i \in 1..Len(trucks[t].menu) :
          ScenarioC(t, i) =>
              /\ Len(decided') = Len(decided) + 1
              /\ decided'[Len(decided')].loss_reason = LOSS_REASON_STOCKOUT]_vars

\* C5: in Scenario C the first student buys the item (stock 1 to 0); the
\* second student's decision leaves the sold-out item aside: no unit of it is
\* sold, its stock stays 0, and the student takes the best option left; the
\* loss reason is "stockout" exactly when no vendor the student can go to has
\* a food item in stock at a price the student can pay.
StockoutContention ==
    [][\A t \in 1..Len(trucks) : \A i \in 1..Len(trucks[t].menu) :
          ScenarioC(t, i) =>
              /\ Len(decided') = Len(decided) + 1
              /\ inventory'[t][i] = 0
              /\ (decided'[Len(decided')].purchased_from_truck = trucks[t].name
                    => \A k \in 1..Len(decided'[Len(decided')].purchased_items) :
                          decided'[Len(decided')].purchased_items[k] # trucks[t].menu[i])
              /\ (decided'[Len(decided')].loss_reason = LOSS_REASON_STOCKOUT
                    <=> NoFoodLeft(Head(pending)))]_vars

\* Scenario C has happened and the second student went to the cafeteria
SecondStudentWentElsewhere ==
    /\ pc = "make_decision"
    /\ Len(decided) >= 2
    /\ \E t \in 1..Len(trucks) : \E i \in 1..Len(trucks[t].menu) :
         /\ inventory[t][i] = 0
         /\ trucks[t].menu[i].inventory_per_day = 1
         /\ decided[Len(decided) - 1].purchased_from_truck = trucks[t].name
         /\ Head(decided[Len(decided) - 1].purchased_items) = trucks[t].menu[i]
         /\ decided[Len(decided)].loss_reason = LOSS_REASON_SCHOOL_LUNCH
         /\ TopChoice(t, i, Fresh(decided[Len(decided)]), [inventory EXCEPT ![t][i] = 1])

(***************************************************************************)
(* Properties of a run (Spec)                                              *)
(***************************************************************************)
\* the run is over: run() has returned or an exception has left it
RunOver == pc \in {"done", "raised"}

\* DailyResult.truck_results[truck.name] of day d
TruckResult(d, t) == daily_results[d].truck_results[trucks[t].name]

\* C2: for every day, every truck and every item of it, the units reported as
\* sold that day (0 when absent from items_sold) equal inventory_per_day minus
\* the item's current_inventory at the end of that day, before the next reset.
SalesAccounting ==
    RunOver =>
        /\ Len(daily_results) = day
        /\ \A t \in 1..Len(trucks) : \A i \in 1..Len(trucks[t].menu) :
             LET sold == TruckResult(day, t).items_sold
                 name == trucks[t].menu[i].name
             IN  (IF name \in DOMAIN sold THEN sold[name] ELSE 0)
                    = trucks[t].menu[i].inventory_per_day - inventory[t][i]

RECURSIVE SumSpent(_, _)
\* the sum of total_spent over the states attributed to the truck `name`
SumSpent(states, name) ==
    IF states = <<>> THEN 0
    ELSE (IF Head(states).purchased_from_truck = name THEN Head(states).total_spent ELSE 0)
         + SumSpent(Tail(states), name)

\* C3: for every day and every truck, the truck's reported daily revenue is
\* the sum of total_spent over exactly the students whose purchase of the day
\* is attributed to that truck.
RevenueConservation ==
    RunOver =>
        \A d \in 1..day :
            /\ d <= Len(daily_results)
            /\ \A t \in 1..Len(trucks) :
                 TruckResult(d, t).revenue
                    = SumSpent(daily_results[d].student_states, trucks[t].name)

\* total revenue of truck t over the daily results
RECURSIVE TotalRevenue(_, _)
TotalRevenue(t, d) == IF d = 0 THEN 0 ELSE TruckResult(d, t).revenue + TotalRevenue(t, d - 1)

\* C4: after all days the declared winner is a configured truck of maximal
\* total revenue over the run, the first such truck in the configured order.
WinnerSelection ==
    RunOver =>
        /\ aggregate # NONE
        /\ \E w \in 1..Len(trucks) :
             /\ aggregate.winner = trucks[w].name
             /\ \A t \in 1..Len(trucks) :
                  TotalRevenue(t, num_days) <= TotalRevenue(w, num_days)
             /\ \A t \in 1..(w - 1) :
                  TotalRevenue(t, num_days) < TotalRevenue(w, num_days)

\* C10: a run always completes: days 1..N are executed in increasing order,
\* once each, none skipped, repeated or aborted, and run() returns N daily
\* results and the aggregate.
RunAlwaysCompletes ==
    /\ raised = NONE
    /\ \A d \in 1..Len(daily_results) : daily_results[d].day = d
    /\ (RunOver => /\ pc = "done"
                   /\ day = num_days
                   /\ Len(daily_results) = num_days
                   /\ aggregate # NONE)

(***************************************************************************)
(* Further properties of the decision (SpecDecision)                       *)
(***************************************************************************)
\* the decided state s records a unit of item i of truck t as bought
SoldTo(s, t, i) ==
    \E k \in 1..Len(s.purchased_items) : s.purchased_items[k] = trucks[t].menu[i]

\* C11: at the start of every day, before any decision of that day, every
\* truck item's stock equals its inventory_per_day; between two resets the
\* stock of an item changes only by a decrement of exactly 1, caused by a
\* successful sale of that item.
DailyResetDecrementOnly ==
    [][\A t \in 1..Len(trucks) : \A i \in 1..Len(trucks[t].menu) :
          /\ (pc' \in {"generate_daily_menu", "generate_daily_states"}
                \/ (pc' = "make_decision" /\ decided' = <<>>))
               => inventory'[t][i] = trucks[t].menu[i].inventory_per_day
          /\ pc # "reset_inventory"
               => \/ inventory'[t][i] = inventory[t][i]
                  \/ /\ inventory'[t][i] = inventory[t][i] - 1
                     /\ Len(decided') = Len(decided) + 1
                     /\ SoldTo(decided'[Len(decided')], t, i)
          /\ (pc = "make_decision" /\ Len(decided') = Len(decided) + 1
                /\ SoldTo(decided'[Len(decided')], t, i))
               => inventory'[t][i] = inventory[t][i] - 1]_vars

\* a student has just bought the food and the drink of a truck, one unit each
SaleDecrementedStock ==
    /\ pc = "make_decision"
    /\ decided # <<>>
    /\ \E t \in 1..Len(trucks) :
         /\ decided[Len(decided)].purchased_from_truck = trucks[t].name
         /\ Len(decided[Len(decided)].purchased_items) = 2
         /\ \A i \in 1..Len(trucks[t].menu) :
              inventory[t][i] = trucks[t].menu[i].inventory_per_day - 1

\* the decision over the trucks and the cafeteria alone, as if there were no
\* fast-food stand
DecisionWithoutFastFood(profile, state, inv) ==
    Options(_find_best_items(inv, profile, state),
            _find_best_items_for_truck(School, inv, profile, state),
            NoOption, inv, state)

\* C12: the fast-food stand is evaluated only for students with has_car = true;
\* a student without a car never ends a decision with loss reason "fastfood",
\* and the outcome is the same as if the fast-food stand did not exist.
CarGating ==
    [][(/\ pc = "make_decision"
        /\ pending # <<>>
        /\ ~profile_lookup(Head(pending).student_id).has_car)
         => LET without == DecisionWithoutFastFood(profile_lookup(Head(pending).student_id),
                                                   Head(pending), inventory)
            IN  /\ raised' = without.raised
                /\ inventory' = without.inventory
                /\ raised' = NONE
                     => /\ decided' = Append(decided, without.state)
                        /\ decided'[Len(decided')].loss_reason # LOSS_REASON_FASTFOOD
                        /\ ~decided'[Len(decided')].chose_fast_food]_vars

\* a student without a car has gone to the cafeteria or come away with nothing
\* where the same student with a car would have gone to the fast-food stand
CarWouldHaveChangedIt ==
    /\ pc = "make_decision"
    /\ decided # <<>>
    /\ ~profile_lookup(decided[Len(decided)].student_id).has_car
    /\ decided[Len(decided)].purchased_items = <<>>
    /\ decided[Len(decided)].loss_reason # LOSS_REASON_FASTFOOD
    /\ make_decision([profile_lookup(decided[Len(decided)].student_id) EXCEPT !.has_car = TRUE],
                     Fresh(decided[Len(decided)]), inventory).state.loss_reason
         = LOSS_REASON_FASTFOOD

\* no vendor the student can go to yields a best food item: every food item on
\* offer scores 0
NoBestFood(profile, state) ==
    \A v \in VendorsFor(profile) :
        \A k \in 1..Len(get_available_food(v, inventory)) :
            score_item(VendorMenu(v)[get_available_food(v, inventory)[k]], profile, state) = ZERO

\* C13: when no reachable vendor yields a best food item for the student, the
\* decision records loss reason "stockout", leaves purchased items empty,
\* total_spent 0 and no fulfilling truck, and changes no stock.
NoCandidateStockout ==
    [][(/\ pc = "make_decision"
        /\ pending # <<>>
        /\ NoBestFood(profile_lookup(Head(pending).student_id), Head(pending)))
         => /\ Len(decided') = Len(decided) + 1
            /\ decided'[Len(decided')].loss_reason = LOSS_REASON_STOCKOUT
            /\ decided'[Len(decided')].purchased_items = <<>>
            /\ decided'[Len(decided')].total_spent = 0
            /\ decided'[Len(decided')].purchased_from_truck = NONE
            /\ inventory' = inventory]_vars

\* the winner make_decision picks for a student when no scoring raises;
\* NoOption when there is no candidate
ChosenWinner(profile, state, inv) ==
    Winner(Candidates(_find_best_items(inv, profile, state),
                      _find_best_items_for_truck(School, inv, profile, state),
                      IF profile.has_car
                      THEN _find_best_items_for_truck(Burger, inv, profile, state)
                      ELSE NoOption))

\* the kind of vendor that wins the decision the next pending student takes
NextWinnerKind ==
    ChosenWinner(profile_lookup(Head(pending).student_id), Head(pending), inventory).truck.kind

\* C14: when the winning vendor is the cafeteria the loss reason is
\* "school_lunch", when it is the fast-food stand it is "fastfood"; in both
\* cases purchased items stay empty, total_spent stays 0, no truck is credited
\* and no stock changes at any vendor.
LossWithoutPurchase ==
    [][(/\ pc = "make_decision"
        /\ pending # <<>>
        /\ pc' # "raised")
         => LET kind == NextWinnerKind
            IN  kind \in {"SchoolLunch", "FastFood"}
                  => /\ Len(decided') = Len(decided) + 1
                     /\ decided'[Len(decided')].loss_reason
                          = (IF kind = "SchoolLunch" THEN LOSS_REASON_SCHOOL_LUNCH
                             ELSE LOSS_REASON_FASTFOOD)
                     /\ decided'[Len(decided')].purchased_items = <<>>
                     /\ decided'[Len(decided')].total_spent = 0
                     /\ decided'[Len(decided')].purchased_from_truck = NONE
                     /\ inventory' = inventory
                     /\ daily_menu' = daily_menu]_vars

\* on one day one student went to the cafeteria and another to the fast-food
\* stand although a truck still had food in stock that both could pay
BothLossesSeen ==
    /\ pc = "make_decision"
    /\ \E j, k \in 1..Len(decided) :
         /\ decided[j].loss_reason = LOSS_REASON_SCHOOL_LUNCH
         /\ decided[k].loss_reason = LOSS_REASON_FASTFOOD
         /\ \E t \in 1..Len(trucks) : \E i \in 1..Len(trucks[t].menu) :
              /\ trucks[t].menu[i].item_type = ITEM_TYPE_FOOD
              /\ inventory[t][i] > 0
              /\ trucks[t].menu[i].price <= decided[j].available_money
              /\ trucks[t].menu[i].price <= decided[k].available_money

(***************************************************************************)
(* Further properties of the scoring (SpecScore)                           *)
(***************************************************************************)
\* the fuzzy bonus at a fuzzy score: x2.00 from 85, x1.50 from 70 to 84
FuzzyBonus(fuzzy_score) ==
    IF fuzzy_score >= 85 THEN <<2, 1>> ELSE IF fuzzy_score >= 70 THEN <<3, 2>> ELSE ONE

\* (0.5 x preference + 0.3 x affordability + 0.2 x mood) for an affordable item
BaseScore(item, profile, state) ==
    RAdd(RAdd(RMul(<<1, 2>>, _score_preference(item, profile).score),
              RMul(<<3, 10>>,
                   RAdd(<<3, 10>>,
                        RMul(<<7, 10>>, Rat(state.available_money - item.price,
                                            state.available_money))))),
         RMul(<<1, 5>>, IF state.mood = "healthy" THEN Rat(item.health_rating, 10)
                        ELSE Rat(10 - item.health_rating, 10)))

\* C16: for an affordable item the score is (0.5 x preference + 0.3 x
\* affordability + 0.2 x mood) x bonus_multiplier, with affordability =
\* 0.3 + 0.7 x (money - price) / money, mood = health_rating/10 for a healthy
\* mood and 1 - health_rating/10 for a junk mood, and the fuzzy bonus x2.00 at
\* fuzzy score >= 85 and x1.50 at 70..84; price 5.00, money 10.00, health 8,
\* healthy mood, fuzzy >= 85 and no other bonus give 1.71; the score is >= 0.
ScoreFormula ==
    pc = "returned" =>
        /\ sc_result[1] >= 0
        /\ sc_result[2] > 0
        /\ sc_item.price <= sc_state.available_money
             => /\ sc_result
                     = RMul(BaseScore(sc_item, sc_profile, sc_state),
                            _calculate_bonuses(sc_item, sc_profile, sc_state,
                                               _score_preference(sc_item, sc_profile).fuzzy_score))
                /\ _calculate_bonuses(sc_item, sc_profile, sc_state,
                                      _score_preference(sc_item, sc_profile).fuzzy_score)
                     = RMul(FuzzyBonus(_fuzzy_match_score(sc_item.name, sc_profile.q8_lunch_choice)),
                            _calculate_bonuses(sc_item, sc_profile, sc_state, 0))
        /\ (/\ sc_item = ScenarioAItem
            /\ sc_profile = StudentPool[1]
            /\ sc_state.available_money = 1000
            /\ sc_state.mood = "healthy")
             => sc_result = <<171, 100>>

\* Scenario A has been scored: the fuzzy bonus alone, and the score 1.71
ScenarioAScored ==
    /\ pc = "returned"
    /\ sc_item = ScenarioAItem
    /\ sc_item.price = 500
    /\ sc_item.health_rating = 8
    /\ sc_state.available_money = 1000
    /\ sc_state.mood = "healthy"
    /\ _fuzzy_match_score(sc_item.name, sc_profile.q8_lunch_choice) >= 85
    /\ _calculate_bonuses(sc_item, sc_profile, sc_state, 0) = ONE
    /\ sc_result = <<171, 100>>

\* the winner of the decision the next pending student takes
NextWinner ==
    ChosenWinner(profile_lookup(Head(pending).student_id), Head(pending), inventory)

\* C17: when the winner is a truck and the food sale succeeds, the chosen
\* food's stock drops by exactly 1, the food is the first purchased item, the
\* truck is recorded as the fulfilling vendor and no loss reason is set; the
\* chosen drink is then sold (stock minus 1, appended after the food) if and
\* only if a drink was chosen and its price is <= available_money minus the
\* food price: purchased items are ordered food before drink.
TruckPurchaseSequence ==
    [][(/\ pc = "make_decision"
        /\ pending # <<>>
        /\ pc' # "raised")
         => LET winner == NextWinner
                t == winner.truck.index
                food == winner.best_food
                drink == winner.best_drink
                menu == trucks[t].menu
                bought == decided'[Len(decided')]
                drink_fits == /\ drink # 0
                              /\ menu[drink].price <= Head(pending).available_money - menu[food].price
            IN  (/\ winner.truck.kind = "FoodTruck"
                 /\ inventory[t][food] > 0)
                  => /\ Len(decided') = Len(decided) + 1
                     /\ inventory'[t][food] = inventory[t][food] - 1
                     /\ Head(bought.purchased_items) = menu[food]
                     /\ bought.purchased_from_truck = trucks[t].name
                     /\ bought.loss_reason = NONE
                     /\ drink_fits => /\ bought.purchased_items = <<menu[food], menu[drink]>>
                                      /\ inventory'[t][drink] = inventory[t][drink] - 1
                     /\ ~drink_fits => /\ bought.purchased_items = <<menu[food]>>
                                       /\ \A i \in 1..Len(menu) :
                                            i # food => inventory'[t][i] = inventory[t][i]
                     /\ \A u \in 1..Len(trucks) : u # t => inventory'[u] = inventory[u]]_vars

\* a student has bought the food of a truck, and not its drink, which is in
\* stock and within available_money but not within what the food left of it
FoodBoughtDrinkLeft ==
    /\ pc = "make_decision"
    /\ decided # <<>>
    /\ \E t \in 1..Len(trucks) : \E f, d \in 1..Len(trucks[t].menu) :
         /\ decided[Len(decided)].purchased_from_truck = trucks[t].name
         /\ decided[Len(decided)].purchased_items = <<trucks[t].menu[f]>>
         /\ decided[Len(decided)].loss_reason = NONE
         /\ trucks[t].menu[d].item_type = ITEM_TYPE_DRINK
         /\ inventory[t][d] > 0
         /\ trucks[t].menu[d].price <= decided[Len(decided)].available_money
         /\ trucks[t].menu[d].price
              > decided[Len(decided)].available_money - trucks[t].menu[f].price

\* C18: in sequential execution the food sale of a winning truck never fails:
\* whenever a decision selects a truck as winner, the chosen food item (and
\* the chosen drink, if any) has current_inventory > 0 when the sale is
\* attempted, so the decision ends with the food bought and never with the
\* fallback "stockout".
SaleNeverFails ==
    [][(/\ pc = "make_decision"
        /\ pending # <<>>)
         => LET winner == NextWinner
                t == winner.truck.index
            IN  winner.truck.kind = "FoodTruck"
                  => /\ inventory[t][winner.best_food] > 0
                     /\ winner.best_drink # 0 => inventory[t][winner.best_drink] > 0
                     /\ pc' # "raised"
                          => /\ decided'[Len(decided')].purchased_items # <<>>
                             /\ decided'[Len(decided')].loss_reason # LOSS_REASON_STOCKOUT
                             /\ inventory'[t][winner.best_food]
                                  = inventory[t][winner.best_food] - 1]_vars

\* a truck item of which one student has bought the last unit but one is the
\* choice of the next student, who buys the last
LastUnitSold ==
    /\ pc = "make_decision"
    /\ Len(decided) >= 2
    /\ \E t \in 1..Len(trucks) : \E f \in 1..Len(trucks[t].menu) :
         /\ trucks[t].menu[f].inventory_per_day = 2
         /\ inventory[t][f] = 0
         /\ decided[Len(decided) - 1].purchased_from_truck = trucks[t].name
         /\ decided[Len(decided)].purchased_from_truck = trucks[t].name
         /\ Head(decided[Len(decided) - 1].purchased_items) = trucks[t].menu[f]
         /\ Head(decided[Len(decided)].purchased_items) = trucks[t].menu[f]

\* the option a vendor yields for the next pending student
OptionOf(v) ==
    _find_best_items_for_truck(v, inventory, profile_lookup(Head(pending).student_id),
                               Head(pending))

\* the place of a vendor in the order of evaluation: the trucks as configured,
\* then the cafeteria, then the fast-food stand
VendorOrder(v) ==
    IF v.kind = "FoodTruck" THEN v.index
    ELSE IF v.kind = "SchoolLunch" THEN Len(trucks) + 1
    ELSE Len(trucks) + 2

\* C20: the candidates are exactly the reachable vendors that produced a best
\* food item; the winner is a candidate of maximal combined score and, among
\* candidates of equal maximal score, the first in the order: trucks as
\* configured, then cafeteria, then fast food.
VendorChoice ==
    [][(/\ pc = "make_decision"
        /\ pending # <<>>
        /\ pc' # "raised")
         => LET winner == NextWinner
                option == [v \in VendorsFor(profile_lookup(Head(pending).student_id)) |->
                             OptionOf(v)]
                candidates == { v \in DOMAIN option : option[v].best_food # 0 }
            IN  /\ candidates = {} <=> winner = NoOption
                /\ candidates # {}
                     => /\ winner.truck \in candidates
                        /\ winner = option[winner.truck]
                        /\ \A v \in candidates :
                             /\ ~RGreater(option[v].combined_score, winner.combined_score)
                             /\ VendorOrder(v) < VendorOrder(winner.truck)
                                  => RGreater(winner.combined_score, option[v].combined_score)
                        /\ winner.truck.kind = "FoodTruck"
                             => decided'[Len(decided')].purchased_from_truck
                                  = trucks[winner.truck.index].name
                        /\ winner.truck.kind = "SchoolLunch"
                             => decided'[Len(decided')].loss_reason = LOSS_REASON_SCHOOL_LUNCH
                        /\ winner.truck.kind = "FastFood"
                             => decided'[Len(decided')].loss_reason = LOSS_REASON_FASTFOOD]_vars

\* two trucks scored alike, and above the cafeteria, for the student who has
\* just decided, and the student bought from the first of them
TieWentToFirstTruck ==
    /\ pc = "make_decision"
    /\ decided # <<>>
    /\ Len(trucks) = 2
    /\ \A t \in 1..2 : \A i \in 1..Len(trucks[t].menu) : inventory[t][i] > 0
    /\ decided[Len(decided)].purchased_from_truck = trucks[1].name
    /\ LET profile == profile_lookup(decided[Len(decided)].student_id)
           state == Fresh(decided[Len(decided)])
           first == _find_best_items_for_truck(Truck(1), inventory, profile, state)
           second == _find_best_items_for_truck(Truck(2), inventory, profile, state)
           school == _find_best_items_for_truck(School, inventory, profile, state)
       IN  /\ first.best_food # 0
           /\ second.best_food # 0
           /\ school.best_food # 0
           /\ first.combined_score = second.combined_score
           /\ RGreater(first.combined_score, school.combined_score)

(***************************************************************************)
(* Properties of the calls run side by side (SpecInterleaved)              *)
(***************************************************************************)
\* the halted call whose purchase has put the state last at the end of decided
HaltedCall(last) ==
    chosen[CHOOSE k \in 1..Len(chosen) : chosen[k].state.student_id = last.student_id]

\* C15: when the winner is a truck and the attempt to sell the chosen food
\* fails, the decision ends with loss reason "stockout" and no purchase
\* recorded: purchased items empty, total_spent 0, no fulfilling truck, and no
\* unit of any item, the chosen drink included, is sold.
FailedFoodSaleSellsNothing ==
    [][(/\ pc = "make_decision"
        /\ Len(chosen') < Len(chosen))
         => LET last == decided'[Len(decided')]
                call == HaltedCall(last)
                t == call.winner.truck.index
                best_food == call.winner.best_food
            IN  (/\ trucks[t].menu[best_food].price <= call.state.available_money
                 /\ inventory[t][best_food] = 0)
                  => /\ last.loss_reason = LOSS_REASON_STOCKOUT
                     /\ last.purchased_items = <<>>
                     /\ last.total_spent = 0
                     /\ last.purchased_from_truck = NONE
                     /\ inventory' = inventory]_vars

\* the units of item i of truck t sold today, by the purchases recorded
SoldCount(t, i) ==
    Cardinality({ <<s, j>> \in (1..Len(decided)) \X (1..2) :
                    /\ j <= Len(decided[s].purchased_items)
                    /\ decided[s].purchased_items[j] = trucks[t].menu[i] })

\* C19: a sale attempt on an item with stock 0 is rejected and leaves the stock
\* at 0, a sale attempt on stock > 0 succeeds and takes exactly 1 from it;
\* hence, with the scoring and the purchase of different students' decisions
\* interleaved, the successful sales of an item in a day never exceed
\* inventory_per_day and the stock never goes negative.
NoOverselling ==
    /\ [](\A t \in 1..Len(trucks) : \A i \in 1..Len(trucks[t].menu) :
            /\ inventory[t][i] >= 0
            /\ SoldCount(t, i) <= trucks[t].menu[i].inventory_per_day)
    /\ [][(/\ pc = "make_decision"
           /\ Len(chosen') < Len(chosen))
            => LET last == decided'[Len(decided')]
                   call == HaltedCall(last)
                   w == call.winner.truck.index
                   best_food == call.winner.best_food
               IN  /\ \A t \in 1..Len(trucks) : \A i \in 1..Len(trucks[t].menu) :
                        LET sold == Cardinality({ j \in 1..Len(last.purchased_items) :
                                                    last.purchased_items[j] = trucks[t].menu[i] })
                        IN  /\ sold <= 1
                            /\ inventory'[t][i] = inventory[t][i] - sold
                            /\ inventory[t][i] = 0 => sold = 0
                   /\ (/\ trucks[w].menu[best_food].price <= call.state.available_money
                       /\ inventory[w][best_food] > 0)
                        => /\ last.purchased_items # <<>>
                           /\ last.purchased_items[1] = trucks[w].menu[best_food]
                           /\ inventory'[w][best_food] = inventory[w][best_food] - 1]_vars

\* a student who had picked a truck over the cafeteria came away with nothing:
\* another call standing beside theirs had taken the last unit
RejectedSaleSeen ==
    /\ pc = "make_decision"
    /\ \E s \in 1..Len(decided) :
         /\ decided[s].loss_reason = LOSS_REASON_STOCKOUT
         /\ decided[s].purchased_items = <<>>
         /\ _find_best_items_for_truck(School, inventory,
                                       profile_lookup(decided[s].student_id),
                                       Fresh(decided[s])).best_food # 0
         /\ \E t \in 1..Len(trucks) : \E i \in 1..Len(trucks[t].menu) :
              /\ inventory[t][i] = 0
              /\ trucks[t].menu[i].price <= decided[s].available_money
              /\ SoldCount(t, i) = trucks[t].menu[i].inventory_per_day

(***************************************************************************)
(* Properties of the options of a vendor (SpecOptions)                     *)
(***************************************************************************)
\* the place `best` (0 for none) is the selection the scoring loop owes for
\* the places `items` of a menu, scored by `score`: the first of the highest
\* scores, none when every score is 0
BestOf(items, score, best) ==
    IF \A k \in 1..Len(items) : score[items[k]] = ZERO
    THEN best = 0
    ELSE \E k \in 1..Len(items) :
           /\ best = items[k]
           /\ RGreater(score[best], ZERO)
           /\ \A j \in 1..Len(items) : ~RGreater(score[items[j]], score[best])
           /\ \A j \in 1..(k - 1) : RGreater(score[best], score[items[j]])

\* the scores of the available items of the vendor v
ScoresOf(v) ==
    [i \in Range(get_available_items(v, inventory)) |->
       score_item(VendorMenu(v)[i], students[1], pending[1])]

\* C21: for each vendor the selected food and, separately, the selected drink
\* is the highest-scoring item of that kind among the vendor's available
\* items, the first listed of equal scores; an item that scores 0 is never
\* selected, the selection is none when every available item of the kind
\* scores 0, and every selected item has price <= available_money.
BestItemPerVendor ==
    pc = "returned"
      => LET v == truck_option.truck
             score == ScoresOf(v)
         IN  /\ BestOf(get_available_food(v, inventory), score, truck_option.best_food)
             /\ BestOf(get_available_drinks(v, inventory), score, truck_option.best_drink)
             /\ \A i \in {truck_option.best_food, truck_option.best_drink} \ {0} :
                  /\ i \in DOMAIN score
                  /\ score[i] # ZERO
                  /\ VendorMenu(v)[i].price <= pending[1].available_money

\* a truck has two foods in stock that the student scores alike and can pay,
\* and the call has returned the one listed first as the truck's best food
FirstOfEqualFoods ==
    /\ pc = "returned"
    /\ truck_option.truck.kind = "FoodTruck"
    /\ \E j \in 1..Len(VendorMenu(truck_option.truck)) :
         /\ truck_option.best_food # 0
         /\ truck_option.best_food < j
         /\ inventory[truck_option.truck.index][j] > 0
         /\ score_item(VendorMenu(truck_option.truck)[j], students[1], pending[1])
              = score_item(VendorMenu(truck_option.truck)[truck_option.best_food], students[1], pending[1])

\* C22: the combined score of a vendor is the best food score when no drink
\* was selected; max(best_food_score, (best_food_score + best_drink_score) / 1.5)
\* when food and drink are both selected and their prices together are within
\* available_money; best_food_score x 0.85 when a drink was selected but food
\* plus drink exceed available_money.
CombinedVendorScore ==
    pc = "returned"
      => LET menu == VendorMenu(truck_option.truck)
             score == ScoresOf(truck_option.truck)
             best_food_score == IF truck_option.best_food = 0 THEN ZERO ELSE score[truck_option.best_food]
             best_drink_score == IF truck_option.best_drink = 0 THEN ZERO ELSE score[truck_option.best_drink]
             both == truck_option.best_food # 0 /\ truck_option.best_drink # 0
             together == menu[truck_option.best_food].price + menu[truck_option.best_drink].price
         IN  /\ truck_option.best_drink = 0 => truck_option.combined_score = best_food_score
             /\ truck_option.best_food = 0 => truck_option.combined_score = ZERO
             /\ (both /\ together <= pending[1].available_money)
                  => truck_option.combined_score
                       = RMax(best_food_score,
                              RMul(RAdd(best_food_score, best_drink_score), <<2, 3>>))
             /\ (both /\ together > pending[1].available_money)
                  => truck_option.combined_score = RMul(best_food_score, <<17, 20>>)

\* the call has returned a food and a drink that the student can pay one at a
\* time and not together: the vendor counts for less than its best food
IncompleteMealPenalised ==
    /\ pc = "returned"
    /\ truck_option.best_food # 0
    /\ truck_option.best_drink # 0
    /\ VendorMenu(truck_option.truck)[truck_option.best_food].price
         + VendorMenu(truck_option.truck)[truck_option.best_drink].price > pending[1].available_money
    /\ RGreater(score_item(VendorMenu(truck_option.truck)[truck_option.best_food], students[1], pending[1]),
                truck_option.combined_score)

(***************************************************************************)
(* Further properties of the run (Spec)                                    *)
(***************************************************************************)
\* menu is what generate_daily_menu can set: the food picks, then the drink
\* picks, each pick from its pool, none twice
IsDailyMenu(menu) ==
    /\ Len(menu) = SCHOOL_LUNCH_DAILY_FOOD_COUNT + SCHOOL_LUNCH_DAILY_DRINK_COUNT
    /\ \A k \in 1..Len(menu) :
         IF k <= SCHOOL_LUNCH_DAILY_FOOD_COUNT
         THEN menu[k] \in Range(_SCHOOL_LUNCH_FOOD_POOL)
         ELSE menu[k] \in Range(_SCHOOL_LUNCH_DRINK_POOL)
    /\ \A j, k \in 1..Len(menu) : j # k => menu[j] # menu[k]

\* C23: on every simulated day, before any student decision of that day, the
\* cafeteria's daily menu is regenerated as a fixed-size subset of the food
\* pool plus a fixed-size subset of the drink pool (no duplicates, every entry
\* from the pools), and the menu stays unchanged for all decisions of the day.
CafeteriaRotation ==
    /\ (day >= 1 /\ pc # "generate_daily_price") => IsDailyMenu(daily_menu)
    /\ RunOver => /\ Len(daily_results) = day
                  /\ day >= 1
                       => daily_results[day].school_lunch_menu
                            = [k \in 1..Len(daily_menu) |-> daily_menu[k].name]

\* the sum of a sequence of numbers
RECURSIVE Sum(_)
Sum(q) == IF q = <<>> THEN 0 ELSE Head(q) + Sum(Tail(q))

\* d.get(key, 0)
Get(d, key) == IF key \in DOMAIN d THEN d[key] ELSE 0

\* C24: for every day, truck and item the daily stockout value is a flag, 0 or
\* 1 and never a count, that is 1 exactly when the item's stock went from > 0
\* to exactly 0 during that day; the run total per item is the number of days
\* on which the flag was 1 and is at most the number of days.
StockedOutFlag ==
    RunOver =>
        /\ Len(daily_results) = day
        /\ \A t \in 1..Len(trucks) : \A i \in 1..Len(trucks[t].menu) :
             LET name == trucks[t].menu[i].name
                 flag == [d \in 1..day |-> TruckResult(d, t).stockouts[name]]
             IN  /\ \A d \in 1..day : flag[d] \in {0, 1}
                 /\ day >= 1 => (flag[day] = 1
                                   <=> /\ trucks[t].menu[i].inventory_per_day > 0
                                       /\ inventory[t][i] = 0)
                 /\ aggregate # NONE
                 /\ Get(aggregate.truck_results[trucks[t].name].total_stockouts, name) = Sum(flag)
                 /\ Sum(flag) <= num_days

\* C25: on each day a fresh daily state is generated for every student, the
\* processing order is a permutation of the whole population, and the decision
\* runs once per student in that order; total_students_served equals the
\* number of students times the number of days.
EveryStudentDecidesOnce ==
    RunOver =>
        /\ Len(daily_results) = day
        /\ \A d \in 1..day :
             LET states == daily_results[d].student_states
             IN  /\ Len(states) = Len(students)
                 /\ daily_results[d].total_students = Len(students)
                 /\ \A k \in 1..Len(students) :
                      Cardinality({ j \in 1..Len(states) :
                                      states[j].student_id = students[k].student_id }) = 1
        /\ aggregate # NONE
        /\ aggregate.total_students_served = Len(students) * num_days

\* C26: for every truck, total_revenue, total_customers, the units sold per
\* item and the stockout days per item are the sums of the daily values over
\* all days, avg_daily_revenue and avg_daily_customers are the totals divided
\* by the number of days, and the run's loss-reason totals are the sums per
\* reason of the daily loss tallies.
RunAggregation ==
    RunOver =>
        /\ aggregate # NONE
        /\ Len(daily_results) = num_days
        /\ \A t \in 1..Len(trucks) :
             LET total == aggregate.truck_results[trucks[t].name]
                 revenue == Sum([d \in 1..num_days |-> TruckResult(d, t).revenue])
                 customers == Sum([d \in 1..num_days |-> TruckResult(d, t).customers])
             IN  /\ total.total_revenue = revenue
                 /\ total.total_customers = customers
                 /\ total.avg_daily_revenue = Rat(revenue, num_days)
                 /\ total.avg_daily_customers = Rat(customers, num_days)
                 /\ \A i \in 1..Len(trucks[t].menu) :
                      LET name == trucks[t].menu[i].name
                      IN  /\ Get(total.total_items_sold, name)
                               = Sum([d \in 1..num_days |->
                                        Get(TruckResult(d, t).items_sold, name)])
                          /\ Get(total.total_stockouts, name)
                               = Sum([d \in 1..num_days |->
                                        Get(TruckResult(d, t).stockouts, name)])
        /\ \A reason \in {LOSS_REASON_SCHOOL_LUNCH, LOSS_REASON_PRICE, LOSS_REASON_STOCKOUT,
                          LOSS_REASON_FASTFOOD} :
             Get(aggregate.total_losses_by_reason, reason)
               = Sum([d \in 1..num_days |-> Get(daily_results[d].losses_by_reason, reason)])

(***************************************************************************)
(* Properties of the state a decision leaves (SpecDecision)                *)
(***************************************************************************)
\* engine.py lines 94-96: the state counts as a customer of a truck
IsCustomer(s) == s.purchased_items # <<>> /\ s.purchased_from_truck # NONE

\* engine.py lines 103-106: the state counts in the day's loss tallies
IsLoss(s) == s.loss_reason # NONE

\* the state object of the call of make_decision that raised
RaisedOn == IF pc = "raised" /\ pending # <<>> THEN {Head(pending)} ELSE {}

\* C27: after a student's decision exactly one of the following holds: (a) a
\* purchase from one truck is recorded (purchased items non-empty, fulfilling
\* truck set, no loss reason) or (b) a loss reason is recorded with purchased
\* items empty, total_spent 0 and no fulfilling truck; consequently, for every
\* day, the trucks' customer counts plus the day's loss tallies add up to the
\* number of students.
DailyOutcomePartition ==
    /\ \A s \in Range(decided) \cup RaisedOn :
         LET purchase == /\ s.purchased_items # <<>>
                         /\ \E t \in 1..Len(trucks) : s.purchased_from_truck = trucks[t].name
                         /\ s.loss_reason = NONE
             loss == /\ s.loss_reason # NONE
                     /\ s.purchased_items = <<>>
                     /\ s.total_spent = 0
                     /\ s.purchased_from_truck = NONE
         IN  purchase # loss
    /\ (pending = <<>> \/ pc = "raised") /\ pc \in {"make_decision", "raised"}
         => Cardinality({ k \in 1..Len(decided) : IsCustomer(decided[k]) })
              + Cardinality({ k \in 1..Len(decided) : IsLoss(decided[k]) })
            = Len(students)

\* C28: after every decision total_spent equals the sum of the prices of the
\* purchased items and is <= available_money; the purchased items are at most
\* one food item followed by at most one drink item, all of them items of the
\* single truck recorded as the fulfilling vendor: never items of two trucks,
\* never a drink without a food.
BudgetAndBasket ==
    \A s \in Range(decided) \cup RaisedOn :
        LET items == s.purchased_items
        IN  /\ s.total_spent = Sum([k \in 1..Len(items) |-> items[k].price])
            /\ s.total_spent <= s.available_money
            /\ Len(items) <= 2
            /\ Len(items) >= 1 => items[1].item_type = ITEM_TYPE_FOOD
            /\ Len(items) = 2 => items[2].item_type = ITEM_TYPE_DRINK
            /\ items # <<>>
                 => \E t \in 1..Len(trucks) :
                      /\ s.purchased_from_truck = trucks[t].name
                      /\ \A k \in 1..Len(items) : items[k] \in Range(trucks[t].menu)

\* a student has spent all of the day's money on the food and the drink of a
\* truck that is not the first of the list
WholeBudgetSpent ==
    /\ pc = "make_decision"
    /\ \E k \in 1..Len(decided) :
         /\ Len(decided[k].purchased_items) = 2
         /\ decided[k].total_spent = decided[k].available_money
         /\ Len(trucks) = 2
         /\ decided[k].purchased_from_truck = trucks[2].name

\* C29: the loss reason "price" is never recorded by any decision: every
\* recorded loss reason is one of "school_lunch", "fastfood" or "stockout",
\* and a student who cannot afford any food item at any reachable vendor,
\* although stock is available, is recorded as "stockout".
PriceNeverRecorded ==
    [][(/\ pc = "make_decision"
        /\ pending # <<>>)
         => /\ \A s \in Range(decided') \cup {Head(pending)} :
                 s.loss_reason \in {NONE, LOSS_REASON_SCHOOL_LUNCH, LOSS_REASON_FASTFOOD,
                                    LOSS_REASON_STOCKOUT}
            /\ (/\ \A v \in VendorsFor(profile_lookup(Head(pending).student_id)) :
                     \A i \in 1..Len(VendorMenu(v)) :
                         VendorMenu(v)[i].item_type = ITEM_TYPE_FOOD
                           => VendorMenu(v)[i].price > Head(pending).available_money
                /\ \E t \in 1..Len(trucks) : \E i \in 1..Len(trucks[t].menu) :
                     /\ trucks[t].menu[i].item_type = ITEM_TYPE_FOOD
                     /\ inventory[t][i] > 0)
                 => /\ Len(decided') = Len(decided) + 1
                    /\ decided'[Len(decided')].loss_reason = LOSS_REASON_STOCKOUT]_vars

\* C30: for health ratings 1..10 and available_money > 0 every item with
\* price <= available_money has a strictly positive score, so every reachable
\* vendor that has at least one available food item the student can afford is
\* a candidate (its best food is not none); in particular a student who can
\* afford some in-stock food never ends with the no-candidate outcome
\* "stockout".
AffordableMeansEligible ==
    [][(/\ pc = "make_decision"
        /\ pending # <<>>
        /\ Head(pending).available_money > 0)
         => LET state == Head(pending)
                profile == profile_lookup(state.student_id)
                vendors == VendorsFor(profile)
                within == [v \in vendors |->
                             { i \in Range(get_available_items(v, inventory)) :
                                 VendorMenu(v)[i].price <= state.available_money }]
                food == [v \in vendors |->
                           { i \in within[v] : VendorMenu(v)[i].item_type = ITEM_TYPE_FOOD }]
            IN  /\ \A v \in vendors : \A i \in within[v] :
                     VendorMenu(v)[i].health_rating \in 1..10
                       => RGreater(score_item(VendorMenu(v)[i], profile, state), ZERO)
                /\ \A v \in vendors : food[v] # {} => OptionOf(v).best_food # 0
                /\ (\E v \in vendors : food[v] # {})
                     => /\ pc' # "raised"
                        /\ Len(decided') = Len(decided) + 1
                        /\ decided'[Len(decided')].loss_reason # LOSS_REASON_STOCKOUT]_vars

\* a student whose money is exactly the price of a food of the day's cafeteria
\* menu, and below the price of every truck food, has gone to the cafeteria
LastCentCounts ==
    /\ pc = "make_decision"
    /\ decided # <<>>
    /\ decided[Len(decided)].loss_reason = LOSS_REASON_SCHOOL_LUNCH
    /\ \E k \in 1..Len(daily_menu) :
         /\ daily_menu[k].item_type = ITEM_TYPE_FOOD
         /\ daily_menu[k].price = decided[Len(decided)].available_money
    /\ \A t \in 1..Len(trucks) : \A i \in 1..Len(trucks[t].menu) :
         trucks[t].menu[i].item_type = ITEM_TYPE_FOOD
           => trucks[t].menu[i].price > decided[Len(decided)].available_money

====
